---- MODULE Spec2Model ----
(***************************************************************************)
(* A model of the pulseaudio.js client core: the dispatcher of client.ts   *)
(* (request table, transport close handling, event subscription), the tag  *)
(* generator of command.ts and the playback / upload / record stream       *)
(* engines of stream.ts.                                                   *)
(*                                                                         *)
(* Conventions                                                             *)
(*  - one action per handler; a handler runs to completion (the client is  *)
(*    single threaded), a promise continuation is an action of its own;    *)
(*  - 32-bit quantities are scaled: PA_NO_VALUE stands for 0xffffffff and  *)
(*    TagModulus for 0xfffffffe, both far beyond what can be enumerated;   *)
(*  - every listener the program emits 'error' to is assumed to exist (an  *)
(*    'error' emitted without a listener ends the process);                *)
(*  - connect() is only called while no transport is attached.             *)
(***************************************************************************)
EXTENDS Integers, Sequences, FiniteSets, TLC

----------------------------------------------------------------------------
(* Bounds of the model *)

\* Scaled stand-in for the modulus 0xfffffffe of the tag generator.
TagModulus == 2
\* Scaled stand-in for the sentinel 0xffffffff (no value / no index / no tag).
PA_NO_VALUE == 9
\* Number of Command objects constructed in a run.
MaxCmds == 4
\* Number of transports opened in a run.
MaxConn == 2
\* Stream indexes the server hands out are 0..MaxIndex.
MaxIndex == 1
\* Number of stream objects constructed in a run.
MaxStreams == 2
\* Number of listeners registered under one name on the client at a time.
MaxListeners == 1
\* Number of framing / protocol errors raised by inbound packets in a run.
MaxReadErrors == 1

----------------------------------------------------------------------------
(* Program constants (defs.ts, event.ts, error.ts) *)

PA_NO_INDEX == PA_NO_VALUE
PA_NO_TAG   == PA_NO_VALUE

PA_SUBSCRIPTION_MASK_NULL == 0
PA_SUBSCRIPTION_MASK_ALL  == 767      \* 0x2ff

PA_ERR_INVALID  == 3
PA_ERR_EXIST    == 4
PA_ERR_NOENTITY == 5
PA_NATIVE_PROTOCOL_VERSION == 32
PA_NATIVE_COOKIE_LENGTH == 256
PA_MAX_CHANNELS == 32
PA_MIN_INDEX == 0
PA_MAX_INDEX == PA_NO_VALUE - 1
PA_PROTOCOL_VERSION_MASK == 65535

VARIABLES
    protocol,        \* this.protocol
    connectAt,       \* where connect() stands: at "idle" (not called), "socket",
                     \* "auth", "info", "name" (awaiting the transport, the reply
                     \* to command cmd), "done" (resolved), "failed" (rejected)
    sock,            \* this.sock: 0 when undefined, else the number of the transport
    sockListeners,   \* per transport: the events the client's handlers are attached to
    transport,       \* per transport: "none", "open", "ending" (end() called),
                     \* "errored", "closed", "failed" (closed after an error)
    disconnecting,   \* this._disconnecting is set
    requestTag,      \* the counter of getRequestTag
    requests,        \* this.requests: tag -> id of the command registered under it
    cmds,            \* every Command constructed so far, with the state of its promise
    eventListeners,  \* this.eventListeners
    handlers,        \* listeners registered on the client, by class of event name
    streams,         \* this.streams: kind -> (index -> id of the stream object)
    objs,            \* every stream object constructed so far
    obs,             \* what an observer of the client has seen (history)
    props,           \* a property tree and what deflate / inflate made of it
    tagstruct,       \* a TagStruct: its parts, its body once finalized, its cursor
    rx               \* the receiving side: the bytes still on their way, those
                     \* sock.read() can return, this.header, this.packetLength
                     \* and the packets handed to _parse so far

vars == <<props, tagstruct, rx, protocol, connectAt, sock, sockListeners, transport, disconnecting,
          requestTag, requests, cmds, eventListeners, handlers, streams, objs, obs>>

Tags  == 0 .. (TagModulus - 1)
Idx   == 0 .. MaxIndex
Conns == 1 .. MaxConn
Kinds == {"playback", "record", "upload"}

\* The empty table, Object.create(null).
Empty == [x \in {} |-> 0]

\* obj[key] = value, adding the key when it is absent.
Put(obj, key, value) ==
    [k \in (DOMAIN obj) \cup {key} |-> IF k = key THEN value ELSE obj[k]]

\* delete obj[key]
Del(obj, key) == [k \in (DOMAIN obj) \ {key} |-> obj[k]]

----------------------------------------------------------------------------
(* Command construction and the request table (command.ts, client.ts) *)

\* function getRequestTag(): requestTag = (requestTag + 1) % 0xfffffffe
getRequestTag(counter) == (counter + 1) % TagModulus

\* Errors, as the reason of a rejection: new Error(...) of _closed, the
\* TypeError of a write to a missing transport, and
\* class PulseError: constructor(code) { this.code = code }
NoError == [name |-> "none", code |-> 0]
Disconnected == [name |-> "Disconnected from PulseAudio", code |-> 0]
TypeError == [name |-> "TypeError", code |-> 0]
PulseError(code) == [name |-> "PulseError", code |-> code]
\* new Error(`Stream killed on PulseAudio server`) of _onEvent, and an error
\* the user hands to stream.destroy(err)
Killed == [name |-> "Stream killed on PulseAudio server", code |-> 0]
UserError == [name |-> "user", code |-> 0]

\* The promise of a command that was constructed and handed to _invoke.
\*   state  of the promise; error is the rejection reason (TypeError when
\*          the write threw because transport s was 0, no transport)
\*   index, credit, step  the fields of a create-stream reply, once it has arrived
\*   value  the U32 of the reply to AUTH, once it has arrived
\*   done   the code awaiting the promise has run
NewCmd(type, arg, tag, s) ==
    [type |-> type, arg |-> arg, tag |-> tag,
     state |-> IF s = 0 THEN "rejected" ELSE "pending",
     error |-> IF s = 0 THEN TypeError ELSE NoError,
     index |-> PA_NO_INDEX, credit |-> 0, step |-> 1, value |-> 0, done |-> FALSE]

\* Promise semantics: settling a promise that is already settled does nothing.
Settle(c, state, error) ==
    IF c.state = "pending" THEN [c EXCEPT !.state = state, !.error = error] ELSE c

\* What the transport has seen of SUBSCRIBE commands.
WroteMask(type, arg) ==
    IF type = "SUBSCRIBE" /\ sock # 0
    THEN [obs EXCEPT !.lastMask = arg, !.maskSock = sock]
    ELSE obs

\* new Command(type) followed by PulseAudio._invoke(cmd):
\*   this.requests[cmd.tag] = { resolve, reject }; this.sock.write(...)
\* The assignment to the table comes first; when no transport is attached the
\* write throws inside the promise executor and the promise is rejected.
_invoke(type, arg) ==
    LET tag == getRequestTag(requestTag)
        id  == Len(cmds) + 1
    IN  /\ Len(cmds) < MaxCmds
        /\ requestTag' = tag
        /\ requests' = Put(requests, tag, id)
        /\ cmds' = Append(cmds, NewCmd(type, arg, tag, sock))
        /\ obs' = WroteMask(type, arg)

\* PulseAudio._subscribe(mask)
_subscribe(mask) == _invoke("SUBSCRIBE", mask)

\* A command of the introspection API (getServerInfo, loadModule, ...), all of
\* the form  c.processResponse(await this._invoke(c)).
Command ==
    /\ _invoke("GET_SERVER_INFO", 0)
    /\ UNCHANGED <<props, tagstruct, rx,
                   protocol, connectAt, sock, sockListeners, transport, disconnecting,
                   eventListeners, handlers, streams, objs>>

CreateCommands ==
    {"CREATE_PLAYBACK_STREAM", "CREATE_RECORD_STREAM", "CREATE_UPLOAD_STREAM"}

\* createPlaybackStream / createRecordStream / createUploadStream up to the
\* await: the command is constructed from the caller's options, of which the
\* model keeps maximumLength and the frame size of sampleSpec.
CreateStream(kind, maximumLength, step) ==
    /\ _invoke(CASE kind = "playback" -> "CREATE_PLAYBACK_STREAM"
                 [] kind = "record"   -> "CREATE_RECORD_STREAM"
                 [] kind = "upload"   -> "CREATE_UPLOAD_STREAM",
               [maximumLength |-> maximumLength, step |-> step])
    /\ UNCHANGED <<props, tagstruct, rx,
                   protocol, connectAt, sock, sockListeners, transport, disconnecting,
                   eventListeners, handlers, streams, objs>>

----------------------------------------------------------------------------
(* Event subscription accounting (client.ts) *)

\* The names listeners are registered under, as sequences of characters:
\* 'event', 'event.s', 'events' and 'error'.
EventPrefix == <<"e", "v", "e", "n", "t">>
EventNames ==
    { EventPrefix, EventPrefix \o <<".", "s">>, EventPrefix \o <<"s">>,
      <<"e", "r", "r", "o", "r">> }

\* eventName = /^event(\.|$)/ ; this.eventName.test(name)
eventNameTest(name) ==
    /\ Len(name) >= Len(EventPrefix)
    /\ SubSeq(name, 1, Len(EventPrefix)) = EventPrefix
    /\ (Len(name) = Len(EventPrefix) \/ name[Len(EventPrefix) + 1] = ".")

\* EventEmitter.on(name, f): the table gets the listener after 'newListener'
\* has been emitted, and _newListener runs synchronously.
_newListener(name) ==
    /\ handlers[name] < MaxListeners
    /\ handlers' = [handlers EXCEPT ![name] = @ + 1]
    /\ IF ~eventNameTest(name)
       THEN UNCHANGED <<eventListeners, requestTag, requests, cmds, obs>>
       ELSE /\ eventListeners' = eventListeners + 1
            /\ IF eventListeners + 1 = 1
               THEN _subscribe(PA_SUBSCRIPTION_MASK_ALL)
               ELSE UNCHANGED <<requestTag, requests, cmds, obs>>
    /\ UNCHANGED <<props, tagstruct, rx,
                   protocol, connectAt, sock, sockListeners, transport, disconnecting,
                   streams, objs>>

\* EventEmitter.off(name, f) of a registered listener: 'removeListener' is
\* emitted once the listener is gone, and _removeListener runs synchronously.
_removeListener(name) ==
    /\ handlers[name] > 0
    /\ handlers' = [handlers EXCEPT ![name] = @ - 1]
    /\ IF ~eventNameTest(name)
       THEN UNCHANGED <<eventListeners, requestTag, requests, cmds, obs>>
       ELSE /\ eventListeners' = eventListeners - 1
            /\ IF eventListeners - 1 = 0
               THEN _subscribe(PA_SUBSCRIPTION_MASK_NULL)
               ELSE UNCHANGED <<requestTag, requests, cmds, obs>>
    /\ UNCHANGED <<props, tagstruct, rx,
                   protocol, connectAt, sock, sockListeners, transport, disconnecting,
                   streams, objs>>

----------------------------------------------------------------------------
(* Connection handling (client.ts) *)

\* connect(), up to its first await: a new transport is created and _read and
\* _closed are attached to it (on 'readable', once 'close', once 'error').
connect ==
    LET n == Cardinality({c \in Conns : transport[c] # "none"}) + 1
    IN  /\ sock = 0
        /\ n \in Conns
        /\ sock' = n
        /\ transport' = [transport EXCEPT ![n] = "open"]
        /\ sockListeners' = [sockListeners EXCEPT ![n] = {"readable", "close", "error"}]
        /\ connectAt' = [at |-> "socket", cmd |-> 0]
        /\ UNCHANGED <<props, tagstruct, rx,
                       protocol, disconnecting, requestTag, requests, cmds,
                       eventListeners, handlers, streams, objs, obs>>

\* disconnect(): returns at once when a disconnect is pending or no transport
\* is attached; otherwise ends the transport and stores the pending promise.
disconnect ==
    /\ ~disconnecting
    /\ sock # 0
    /\ transport' = [transport EXCEPT ![sock] = IF @ = "open" THEN "ending" ELSE @]
    /\ disconnecting' = TRUE
    /\ obs' = [obs EXCEPT !.userClose[sock] = TRUE]
    /\ UNCHANGED <<props, tagstruct, rx,
                   protocol, connectAt, sock, sockListeners, requestTag, requests,
                   cmds, eventListeners, handlers, streams, objs>>

\* Calls of disconnect() made while an earlier one is pending, in a run.
MaxReturned == 1

\* disconnect() while a disconnect is pending: `return this._disconnecting`
\* returns the stored { resolve, reject } entry. The entry is not a promise,
\* so the promise of this call is resolved with it at once.
disconnectPending ==
    /\ disconnecting
    /\ obs.returned < MaxReturned
    /\ obs' = [obs EXCEPT !.returned = @ + 1]
    /\ UNCHANGED <<props, tagstruct, rx,
                   protocol, connectAt, sock, sockListeners, transport, disconnecting,
                   requestTag, requests,
                   cmds, eventListeners, handlers, streams, objs>>

\* The streams of all three registries, Object.values(this.streams) flattened.
Registered == UNION { { streams[k][i] : i \in DOMAIN streams[k] } : k \in Kinds }

\* A faulty _abort: the requests are rejected but the table is kept.
_abortKeep(error) ==
    /\ objs' = [i \in DOMAIN objs |->
                  IF i \in Registered THEN [objs[i] EXCEPT !.errors = @ + 1]
                  ELSE objs[i]]
    /\ cmds' = [i \in DOMAIN cmds |->
                  IF \E t \in DOMAIN requests : requests[t] = i
                  THEN Settle(cmds[i], "rejected", error) ELSE cmds[i]]
    /\ requests' = requests

\* _abort(error): every registered stream gets the error, every entry of the
\* request table is rejected, and the table is replaced by an empty one.
_abort(error) ==
    /\ objs' = [i \in DOMAIN objs |->
                  IF i \in Registered THEN [objs[i] EXCEPT !.errors = @ + 1]
                  ELSE objs[i]]
    /\ cmds' = [i \in DOMAIN cmds |->
                  IF \E t \in DOMAIN requests : requests[t] = i
                  THEN Settle(cmds[i], "rejected", error) ELSE cmds[i]]
    /\ requests' = Empty

\* A faulty _closed: the error is emitted whether or not a disconnect is pending.
_closedLoud(n) ==
    /\ _abort(Disconnected)
    /\ IF sock = 0
       THEN UNCHANGED <<sock, disconnecting, obs>>
       ELSE /\ sock' = 0
            /\ disconnecting' = FALSE
            /\ obs' = [obs EXCEPT !.closeErrors[n] = @ + 1,
                                  !.errorTable = DOMAIN requests']

\* _closed(), run for an event of transport n: abort, detach from this.sock and
\* forget it, then resolve the pending disconnect or emit 'error'.
\* (With this.sock already gone, this.sock.end() throws after the abort.)
_closed(n) ==
    /\ _abort(Disconnected)
    /\ IF sock = 0
       THEN UNCHANGED <<sock, disconnecting, obs>>
       ELSE /\ sock' = 0
            /\ disconnecting' = FALSE
            /\ obs' = IF disconnecting
                      THEN obs
                      ELSE [obs EXCEPT !.closeErrors[n] = @ + 1,
                                       !.errorTable = DOMAIN requests']

\* The transport n emits 'close' or 'error'. A failing transport emits 'error'
\* and then 'close'. A listener attached with once() is detached before it
\* runs; _closed detaches the handlers of this.sock.
SockEvent(n, ev) ==
    /\ \/ ev = "close" /\ transport[n] \in {"open", "ending", "errored"}
       \/ ev = "error" /\ transport[n] \in {"open", "ending"}
    /\ transport' = [transport EXCEPT ![n] =
                        IF ev = "error" THEN "errored"
                        ELSE IF @ = "errored" THEN "failed" ELSE "closed"]
    /\ IF ev \in sockListeners[n]
       THEN /\ _closed(n)
            /\ sockListeners' =
                 [c \in Conns |-> IF c = sock THEN {}
                                  ELSE IF c = n THEN sockListeners[c] \ {ev}
                                  ELSE sockListeners[c]]
       ELSE UNCHANGED <<sock, sockListeners, disconnecting, requests, cmds, objs, obs>>
    /\ UNCHANGED <<props, tagstruct, rx,
                   protocol, connectAt, requestTag, eventListeners, handlers, streams>>

----------------------------------------------------------------------------
(* Stream objects (stream.ts) *)

\* null, for a `left` without limit
Null == -1

Min(a, b) == IF a <= b THEN a ELSE b

\* A stream object right after its constructor. Bytes are numbered by their
\* position in the producer's output, so a chunk is a sequence of positions.
\*   PlaybackStream / UploadStream: queue, step, left, requestedBytes, callback
\*   RecordStream: _running, left, maximumLength
\* History, kept for the properties:
\*   errors    'error' events emitted on the stream by _abort
\*   granted   requestedBytes of the create reply plus those of REQUEST events
\*   written   bytes handed to _write and put on the queue
\*   blocks    the memory blocks written to the transport
\*   calls     continuations invoked; refused: writes answered with an error
\*   thrown    _write threw 'Already have a stored callback'
\*   owner     the write whose continuation is stored: 1 + the position of
\*             its chunk in the producer's output (0: none is stored)
\*   atWrite   credit when the stored continuation's write was accepted
\*   raised    a REQUEST made the credit positive since that write
\*   early     a continuation was invoked with atWrite = 0 and nothing raised
\*   pushed    bytes pushed to the consumer; ends: end-of-stream signals
\*   ended     the Readable has been given null; overruns: 'overrun' events
\*   handled   memory blocks taken while running
\*   afterEnd  chunks pushed after null (the Readable raises 'push after EOF')
\*   lastEvent the type of the last stream event emitted on the stream
\* Life cycle (stream.Readable / stream.Writable):
\*   destroyed destroy() has been called; deleteCmd: the id of the command
\*             _destroy sent; closed: _destroy has called back and 'close'
\*             has been emitted; destroyError: the error it called back with
\*   destroyArg  the error destroy() was called with; callbacks: the number
\*             of times _destroy has called back
\*   finalCmd  the id of the command _final sent (0: _final not called);
\*             finalDone: _final has called done; finalError: the error it
\*             called done with; finished: 'finish' has been emitted
NewStream(kind, index, credit, step, maximumLength) ==
    [kind |-> kind, index |-> index,
     queue |-> <<>>, step |-> step, requestedBytes |-> credit, callback |-> FALSE,
     left |-> IF kind = "record"
              THEN (IF maximumLength # PA_NO_VALUE THEN maximumLength ELSE Null)
              ELSE maximumLength,
     maximumLength |-> maximumLength, running |-> FALSE,
     errors |-> 0, granted |-> credit, written |-> 0, blocks |-> <<>>,
     calls |-> 0, refused |-> 0, thrown |-> FALSE, owner |-> 0,
     atWrite |-> 0, raised |-> FALSE, early |-> FALSE,
     pushed |-> 0, ends |-> 0, ended |-> FALSE, overruns |-> 0, handled |-> 0,
     afterEnd |-> 0, lastEvent |-> "none",
     destroyed |-> FALSE, deleteCmd |-> 0, closed |-> FALSE, destroyError |-> NoError,
     destroyArg |-> NoError, callbacks |-> 0,
     finalCmd |-> 0, finalDone |-> FALSE, finalError |-> NoError, finished |-> FALSE]

\* Buffer.alloc-like chunk of n bytes, the producer's bytes from position `from` on.
Chunk(from, n) == [i \in 1 .. n |-> from + i - 1]

RECURSIVE Flatten(_)
\* Buffer.concat(list)
Flatten(list) == IF list = <<>> THEN <<>> ELSE Head(list) \o Flatten(Tail(list))

\* _enqueued = () => this.queue.reduce((a, v) => a + v.length, 0)
_enqueued(queue) == Len(Flatten(queue))

RECURSIVE TakeWhole(_, _)
\* A faulty loop of _wakeup: a chunk longer than what is left to take is
\* moved whole instead of being split.
TakeWhole(queue, l) ==
    IF l = 0 THEN [data |-> <<>>, queue |-> queue]
    ELSE IF l >= Len(queue[1])
    THEN LET r == TakeWhole(Tail(queue), l - Len(queue[1]))
         IN  [data |-> <<queue[1]>> \o r.data, queue |-> r.queue]
    ELSE [data |-> <<queue[1]>>, queue |-> Tail(queue)]

RECURSIVE Take(_, _)
\* The loop of _wakeup: move l bytes from the head of the queue into data,
\* whole chunks first and then the first part of the next chunk.
Take(queue, l) ==
    IF l = 0 THEN [data |-> <<>>, queue |-> queue]
    ELSE IF l >= Len(queue[1])
    THEN LET r == Take(Tail(queue), l - Len(queue[1]))
         IN  [data |-> <<queue[1]>> \o r.data, queue |-> r.queue]
    ELSE [data |-> <<SubSeq(queue[1], 1, l)>>,
          queue |-> <<SubSeq(queue[1], l + 1, Len(queue[1]))>> \o Tail(queue)]

\* A faulty alignedLength: the writable length is not cut to whole frames.
alignedLengthRaw(s) == Min(_enqueued(s.queue), s.requestedBytes)

\* Math.floor(writableLength / this.step) * this.step
alignedLength(s) ==
    (Min(_enqueued(s.queue), s.requestedBytes) \div s.step) * s.step

\* PlaybackStream._wakeup() on stream object s; attached says whether
\* this.pa.sock exists (writing to a missing transport throws after the queue
\* has been cut).
_wakeup(s, attached) ==
    LET l     == alignedLength(s)
        taken == Take(s.queue, l)
        cut   == [s EXCEPT !.queue = taken.queue]
        sent  == IF l > 0
                 THEN [cut EXCEPT
                         !.blocks = Append(@, [channel |-> s.index, body |-> taken.data]),
                         !.requestedBytes = @ - l,
                         !.left = IF @ # Null THEN @ - l ELSE @]
                 ELSE cut
    IN  IF l > 0 /\ ~attached THEN cut
        ELSE IF sent.callback
                /\ (sent.requestedBytes > 0 \/ l = 0 \/ sent.left = 0)
        THEN [sent EXCEPT !.callback = FALSE, !.calls = @ + 1, !.owner = 0,
                          !.early = @ \/ (sent.atWrite = 0 /\ ~sent.raised)]
        ELSE sent

\* A faulty _write: the chunk is queued whatever is left of maximumLength.
_writeAny(s, n, attached) ==
    LET pushed == [s EXCEPT !.queue = Append(@, Chunk(s.written, n)),
                            !.written = @ + n]
    IN  IF pushed.callback
        THEN [pushed EXCEPT !.thrown = TRUE]
        ELSE _wakeup([pushed EXCEPT !.callback = TRUE,
                                    !.owner = s.written + 1,
                                    !.atWrite = s.requestedBytes,
                                    !.raised = FALSE], attached)

\* A faulty _write: a stored continuation is replaced by the new one.
_writeReplace(s, n, attached) ==
    IF s.left # Null /\ _enqueued(s.queue) + n > s.left
    THEN [s EXCEPT !.refused = @ + 1]
    ELSE _wakeup([s EXCEPT !.queue = Append(@, Chunk(s.written, n)),
                           !.written = @ + n,
                           !.callback = TRUE,
                           !.owner = s.written + 1,
                           !.atWrite = s.requestedBytes,
                           !.raised = FALSE], attached)

\* PlaybackStream._write(data, encoding, next) with data of n bytes
_write(s, n, attached) ==
    IF s.left # Null /\ _enqueued(s.queue) + n > s.left
    THEN [s EXCEPT !.refused = @ + 1]
    ELSE LET pushed == [s EXCEPT !.queue = Append(@, Chunk(s.written, n)),
                                 !.written = @ + n]
         IN  IF pushed.callback
             THEN [pushed EXCEPT !.thrown = TRUE]
             ELSE _wakeup([pushed EXCEPT !.callback = TRUE,
                                         !.owner = s.written + 1,
                                         !.atWrite = s.requestedBytes,
                                         !.raised = FALSE], attached)

\* A faulty _onEvent for 'request': the credit is added and nothing is shipped.
_onRequestIdle(s, requestedBytes, attached) ==
    [s EXCEPT !.requestedBytes = @ + requestedBytes,
              !.granted = @ + requestedBytes,
              !.raised = @ \/ (s.requestedBytes + requestedBytes > 0)]

\* PlaybackStream._onEvent(event) for event.type === 'request'
_onRequest(s, requestedBytes, attached) ==
    _wakeup([s EXCEPT !.requestedBytes = @ + requestedBytes,
                      !.granted = @ + requestedBytes,
                      !.raised = @ \/ (s.requestedBytes + requestedBytes > 0)],
            attached)

\* this.push(null): the Readable signals the end once; a second null is ignored.
pushNull(s) == [s EXCEPT !.ended = TRUE, !.ends = IF s.ended THEN @ ELSE @ + 1]

\* A faulty _onData: the block is pushed whole, whatever is left.
_onDataWhole(s, len, full) ==
    IF ~s.running THEN s
    ELSE LET s1 == [s EXCEPT !.pushed = @ + len, !.handled = @ + 1,
                             !.afterEnd = IF s.ended THEN @ + 1 ELSE @,
                             !.overruns = IF full THEN @ + 1 ELSE @,
                             !.running = ~full]
         IN  IF s1.left = Null THEN s1
             ELSE IF s1.left - len # 0 THEN [s1 EXCEPT !.left = @ - len]
             ELSE pushNull([s1 EXCEPT !.left = 0, !.running = FALSE])

\* A faulty _onData: the block is pushed whether or not the stream is running.
_onDataAlways(s, len, full) ==
    LET n  == IF s.left # Null /\ s.left < len THEN s.left ELSE len
        s1 == [s EXCEPT !.pushed = @ + n, !.handled = @ + 1,
                        !.afterEnd = IF s.ended THEN @ + 1 ELSE @,
                        !.overruns = IF full THEN @ + 1 ELSE @,
                        !.running = ~full]
    IN  IF s1.left = Null THEN s1
        ELSE IF s1.left - n # 0 THEN [s1 EXCEPT !.left = @ - n]
        ELSE pushNull([s1 EXCEPT !.left = 0, !.running = FALSE])

\* RecordStream._onData(packet) for a memory block of len bytes; full says
\* whether this.push(data) reports that the consumer's buffer is full.
_onData(s, len, full) ==
    IF ~s.running THEN s
    ELSE LET n  == IF s.left # Null /\ s.left < len THEN s.left ELSE len
             s1 == [s EXCEPT !.pushed = @ + n, !.handled = @ + 1,
                             !.afterEnd = IF s.ended THEN @ + 1 ELSE @,
                             !.overruns = IF full THEN @ + 1 ELSE @,
                             !.running = ~full]
         IN  IF s1.left = Null THEN s1
             ELSE IF s1.left - n # 0 THEN [s1 EXCEPT !.left = @ - n]
             ELSE pushNull([s1 EXCEPT !.left = 0, !.running = FALSE])

\* PlaybackStream._onEvent / RecordStream._onEvent for every event type but
\* 'request': the event is emitted on the stream (_parse adds the destroy()
\* that follows a 'killed' event).
_onEvent(s, type) == [s EXCEPT !.lastEvent = type]

\* RecordStream._read(): the consumer asks for data.
_readStream(s) == [s EXCEPT !.running = TRUE]

\* The command _destroy sends for a stream of the kind.
DeleteCommand(kind) ==
    CASE kind = "playback" -> "DELETE_PLAYBACK_STREAM"
      [] kind = "record"   -> "DELETE_RECORD_STREAM"
      [] kind = "upload"   -> "DELETE_UPLOAD_STREAM"

\* The command _final sends for a stream of the kind.
FinalCommand(kind) ==
    CASE kind = "playback" -> "DRAIN_PLAYBACK_STREAM"
      [] kind = "upload"   -> "FINISH_UPLOAD_STREAM"

\* A faulty catch clause of _destroy: only PA_ERR.NOENTITY is tolerated.
DestroyErrorStrict(c, err) ==
    IF c.state = "rejected" /\ c.error.code # PA_ERR_NOENTITY
    THEN c.error ELSE err

\* The catch clause of _destroy(err, callback) for the settled delete command
\* c: err is replaced by the error of c unless its code is PA_ERR.NOENTITY or
\* PA_ERR.EXIST.
DestroyError(c, err) ==
    IF c.state = "rejected" /\ c.error.code \notin {PA_ERR_NOENTITY, PA_ERR_EXIST}
    THEN c.error ELSE err

\* stream.destroy(err) on a stream that is not destroyed yet, as far as the
\* stream object goes: _destroy runs up to its await, having sent the delete
\* command with the id (RecordStream._destroy stops the stream first).
Destroying(s, err, id) ==
    [s EXCEPT !.destroyed = TRUE, !.deleteCmd = id, !.destroyArg = err,
              !.running = FALSE]

----------------------------------------------------------------------------
(* Inbound packets and the dispatcher (client.ts, event.ts) *)

\* The command codes _parse hands to a playback stream and to a record stream.
PlaybackEvents ==
    {"PLAYBACK_STREAM_EVENT", "PLAYBACK_STREAM_SUSPENDED", "PLAYBACK_STREAM_MOVED",
     "PLAYBACK_STREAM_KILLED", "PLAYBACK_BUFFER_ATTR_CHANGED", "STARTED", "REQUEST",
     "UNDERFLOW", "OVERFLOW"}
RecordEvents ==
    {"RECORD_STREAM_EVENT", "RECORD_STREAM_SUSPENDED", "RECORD_STREAM_MOVED",
     "RECORD_STREAM_KILLED", "RECORD_BUFFER_ATTR_CHANGED"}

\* What stands for the throw of the default branch of a switch.
Unsupported == "unsupported"

\* type of the StreamEvent built from a packet (StreamEvent constructor); the
\* switch has no case for RECORD_BUFFER_ATTR_CHANGED.
StreamEventType(type) ==
    CASE type \in {"PLAYBACK_STREAM_EVENT", "RECORD_STREAM_EVENT"} -> "event"
      [] type \in {"PLAYBACK_STREAM_SUSPENDED", "RECORD_STREAM_SUSPENDED"} -> "suspended"
      [] type \in {"PLAYBACK_STREAM_MOVED", "RECORD_STREAM_MOVED"} -> "moved"
      [] type = "PLAYBACK_BUFFER_ATTR_CHANGED" -> "buffer"
      [] type \in {"PLAYBACK_STREAM_KILLED", "RECORD_STREAM_KILLED"} -> "killed"
      [] type = "STARTED"   -> "started"
      [] type = "OVERFLOW"  -> "overflow"
      [] type = "REQUEST"   -> "request"
      [] type = "UNDERFLOW" -> "underflow"
      [] OTHER -> Unsupported

\* A faulty eventFacility: the event is not masked with FACILITY_MASK.
eventFacilityWhole(event) ==
    CASE event = 0 -> "sink"
      [] event = 1 -> "source"
      [] event = 2 -> "sink_input"
      [] event = 3 -> "source_output"
      [] event = 4 -> "module"
      [] event = 5 -> "client"
      [] event = 6 -> "sample_cache"
      [] event = 7 -> "server"
      [] event = 8 -> "autoload"
      [] event = 9 -> "card"
      [] OTHER -> Unsupported

\* eventFacility(event): switch (event & PA_SUBSCRIPTION_EVENT.FACILITY_MASK)
eventFacility(event) ==
    LET facility == event % 16
    IN  CASE facility = 0 -> "sink"
          [] facility = 1 -> "source"
          [] facility = 2 -> "sink_input"
          [] facility = 3 -> "source_output"
          [] facility = 4 -> "module"
          [] facility = 5 -> "client"
          [] facility = 6 -> "sample_cache"
          [] facility = 7 -> "server"
          [] facility = 8 -> "autoload"
          [] facility = 9 -> "card"
          [] OTHER -> Unsupported

\* eventOperation(event): switch (event & PA_SUBSCRIPTION_EVENT.TYPE_MASK)
eventOperation(event) ==
    LET op == ((event \div 16) % 4) * 16
    IN  CASE op = 0  -> "new"
          [] op = 16 -> "change"
          [] op = 32 -> "remove"
          [] OTHER -> Unsupported

\* this.emit(name, arg) with arg = { index, event, facility, operation }, and
\* this.emit(name, index, event) (shape "positional": no facility, no operation)
Notification(name, shape, index, event, facility, operation) ==
    [name |-> name, shape |-> shape, index |-> index, event |-> event,
     facility |-> facility, operation |-> operation]

\* The four events _parse emits for a SubscribeEvent, in order.
SubscribeNotifications(index, event) ==
    LET facility  == eventFacility(event)
        operation == eventOperation(event)
    IN  << Notification("event", "object", index, event, facility, operation),
           Notification("event." \o facility, "object", index, event, facility, operation),
           Notification("event." \o operation, "object", index, event, facility, operation),
           Notification("event." \o facility \o "." \o operation, "positional",
                        index, event, "", "") >>

\* An inbound packet as the framer sees it.
\*   frame    "ok", or what sock.read returned short of: "shortHeader", "shortBody"
\*   channel  descriptor channel; PA_NO_INDEX for a tagstruct body
\*   head     the body has at least 5 bytes and starts with a U32
\*   type     the command code; tag: the U32 after it (Null when it is missing)
\*   ok       the rest of the body parses for its type
\*   index, n, step   the fields of the body the model uses
Packet(frame, channel, head, type, tag, ok, index, n, step) ==
    [frame |-> frame, channel |-> channel, head |-> head, type |-> type, tag |-> tag,
     ok |-> ok, index |-> index, n |-> n, step |-> step]

\* The conditions under which _read / _parse throw for a packet; all of them
\* are evaluated before the packet has had any effect.
Throws(pkt) ==
    \/ pkt.frame # "ok"
    \/ /\ pkt.channel = PA_NO_INDEX
       /\ \/ ~pkt.head
          \/ /\ pkt.type \in {"REPLY", "ERROR"}
             /\ \/ pkt.tag = Null
                \/ pkt.tag = PA_NO_TAG
                \/ pkt.tag \notin DOMAIN requests
                \/ pkt.type = "ERROR" /\ ~pkt.ok
          \/ /\ pkt.type = "SUBSCRIBE_EVENT"
             /\ \/ pkt.tag # PA_NO_TAG
                \/ ~pkt.ok
                \/ eventOperation(pkt.n) = Unsupported
                \/ eventFacility(pkt.n) = Unsupported
          \/ /\ pkt.type \in PlaybackEvents \cup RecordEvents
             /\ \/ pkt.tag # PA_NO_TAG
                \/ ~pkt.ok
                \/ StreamEventType(pkt.type) = Unsupported
          \/ pkt.type \notin {"REPLY", "ERROR", "SUBSCRIBE_EVENT"}
                              \cup PlaybackEvents \cup RecordEvents

\* The command a reply settles, with the fields of a create-stream reply kept.
Replied(c, pkt) ==
    IF pkt.type = "ERROR" THEN Settle(c, "rejected", PulseError(pkt.n))
    ELSE IF c.type \in CreateCommands /\ c.state = "pending"
    THEN [Settle(c, "resolved", NoError) EXCEPT
            !.index = pkt.index, !.credit = pkt.n, !.step = pkt.step]
    ELSE IF c.type = "AUTH" /\ c.state = "pending"
    THEN [Settle(c, "resolved", NoError) EXCEPT !.value = pkt.n]
    ELSE Settle(c, "resolved", NoError)

\* A faulty reply handler: the entry is not deleted from the table.
ParseReplyKeep(pkt) ==
    /\ cmds' = [cmds EXCEPT ![requests[pkt.tag]] = Replied(@, pkt)]
    /\ requests' = requests
    /\ UNCHANGED <<objs, obs>>

\* A faulty reply handler: an ERROR is treated as fatal to every request.
ParseReplyAll(pkt) ==
    /\ cmds' = [i \in DOMAIN cmds |->
                  IF i = requests[pkt.tag] THEN Replied(cmds[i], pkt)
                  ELSE IF pkt.type = "ERROR" /\ \E t \in DOMAIN requests : requests[t] = i
                  THEN Settle(cmds[i], "rejected", PulseError(pkt.n)) ELSE cmds[i]]
    /\ requests' = IF pkt.type = "ERROR" THEN Empty ELSE Del(requests, pkt.tag)
    /\ UNCHANGED <<objs, obs>>

\* A faulty reply handler: the whole table is dropped with the entry.
ParseReplyDrop(pkt) ==
    /\ cmds' = [cmds EXCEPT ![requests[pkt.tag]] = Replied(@, pkt)]
    /\ requests' = Empty
    /\ UNCHANGED <<objs, obs>>

\* case REPLY / case ERROR of _parse: the request registered under the tag is
\* resolved or rejected (with a PulseError holding the code), then deleted.
ParseReply(pkt) ==
    /\ cmds' = [cmds EXCEPT ![requests[pkt.tag]] = Replied(@, pkt)]
    /\ requests' = Del(requests, pkt.tag)
    /\ UNCHANGED <<objs, obs>>

\* A faulty _parse: a packet for a stream that is not registered is an error.
_parseLost(pkt, full) ==
    IF pkt.channel # PA_NO_INDEX
    THEN /\ objs' = IF pkt.channel \in DOMAIN streams["record"]
                    THEN [objs EXCEPT ![streams["record"][pkt.channel]] =
                                         _onData(@, pkt.n, full)]
                    ELSE objs
         /\ obs' = IF pkt.channel \in DOMAIN streams["record"] THEN obs
                   ELSE [obs EXCEPT !.readErrors = @ + 1]
         /\ UNCHANGED <<requestTag, requests, cmds>>
    ELSE IF pkt.type \in {"REPLY", "ERROR"}
    THEN ParseReply(pkt) /\ UNCHANGED requestTag
    ELSE IF pkt.type = "SUBSCRIBE_EVENT"
    THEN /\ obs' = [obs EXCEPT !.emitted = SubscribeNotifications(pkt.index, pkt.n)]
         /\ UNCHANGED <<requestTag, requests, cmds, objs>>
    ELSE LET reg == IF pkt.type \in PlaybackEvents THEN streams["playback"]
                    ELSE streams["record"]
         IN  IF pkt.index \notin DOMAIN reg
             THEN /\ obs' = [obs EXCEPT !.readErrors = @ + 1]
                  /\ UNCHANGED <<requestTag, requests, cmds, objs>>
             ELSE IF pkt.type = "REQUEST"
             THEN /\ objs' = [objs EXCEPT ![reg[pkt.index]] = _onRequest(@, pkt.n, TRUE)]
                  /\ UNCHANGED <<requestTag, requests, cmds, obs>>
             ELSE IF StreamEventType(pkt.type) = "killed" /\ ~objs[reg[pkt.index]].destroyed
             THEN \* this.destroy(new Error(...)) after the event has been emitted
                  /\ _invoke(DeleteCommand(objs[reg[pkt.index]].kind), pkt.index)
                  /\ objs' = [objs EXCEPT ![reg[pkt.index]] =
                                 Destroying(_onEvent(@, "killed"), Killed, Len(cmds) + 1)]
             ELSE /\ objs' = [objs EXCEPT ![reg[pkt.index]] =
                                 _onEvent(@, StreamEventType(pkt.type))]
                  /\ UNCHANGED <<requestTag, requests, cmds, obs>>

\* _parse(header, body) for a packet that does not make it throw.
_parse(pkt, full) ==
    IF pkt.channel # PA_NO_INDEX
    THEN /\ objs' = IF pkt.channel \in DOMAIN streams["record"]
                    THEN [objs EXCEPT ![streams["record"][pkt.channel]] =
                                         _onData(@, pkt.n, full)]
                    ELSE objs
         /\ UNCHANGED <<requestTag, requests, cmds, obs>>
    ELSE IF pkt.type \in {"REPLY", "ERROR"}
    THEN ParseReply(pkt) /\ UNCHANGED requestTag
    ELSE IF pkt.type = "SUBSCRIBE_EVENT"
    THEN /\ obs' = [obs EXCEPT !.emitted = SubscribeNotifications(pkt.index, pkt.n)]
         /\ UNCHANGED <<requestTag, requests, cmds, objs>>
    ELSE LET reg == IF pkt.type \in PlaybackEvents THEN streams["playback"]
                    ELSE streams["record"]
         IN  IF pkt.index \notin DOMAIN reg
             THEN UNCHANGED <<requestTag, requests, cmds, objs, obs>>
             ELSE IF pkt.type = "REQUEST"
             THEN /\ objs' = [objs EXCEPT ![reg[pkt.index]] = _onRequest(@, pkt.n, TRUE)]
                  /\ UNCHANGED <<requestTag, requests, cmds, obs>>
             ELSE IF StreamEventType(pkt.type) = "killed" /\ ~objs[reg[pkt.index]].destroyed
             THEN \* this.destroy(new Error(...)) after the event has been emitted
                  /\ _invoke(DeleteCommand(objs[reg[pkt.index]].kind), pkt.index)
                  /\ objs' = [objs EXCEPT ![reg[pkt.index]] =
                                 Destroying(_onEvent(@, "killed"), Killed, Len(cmds) + 1)]
             ELSE /\ objs' = [objs EXCEPT ![reg[pkt.index]] =
                                 _onEvent(@, StreamEventType(pkt.type))]
                  /\ UNCHANGED <<requestTag, requests, cmds, obs>>

\* One round of the loop of _read() for a packet the transport delivers:
\* _parse, and on any error  this.emit('error', error); return.
_read(pkt, full) ==
    /\ sock # 0
    /\ "readable" \in sockListeners[sock]
    /\ transport[sock] \in {"open", "ending"}
    /\ IF Throws(pkt)
       THEN /\ obs.readErrors < MaxReadErrors
            /\ obs' = [obs EXCEPT !.readErrors = @ + 1]
            /\ UNCHANGED <<requestTag, requests, cmds, objs>>
       ELSE _parse(pkt, full)
    /\ UNCHANGED <<props, tagstruct, rx,
                   protocol, connectAt, sock, sockListeners, transport, disconnecting,
                   eventListeners, handlers, streams>>

\* processResponse of a create-stream command, run by the code awaiting its
\* reply: the stream object is constructed and entered in its registry.
StreamCreated(id) ==
    LET c    == cmds[id]
        kind == CASE c.type = "CREATE_PLAYBACK_STREAM" -> "playback"
                  [] c.type = "CREATE_RECORD_STREAM"   -> "record"
                  [] c.type = "CREATE_UPLOAD_STREAM"   -> "upload"
    IN  /\ c.type \in CreateCommands
        /\ c.state = "resolved"
        /\ ~c.done
        /\ Len(objs) < MaxStreams
        /\ cmds' = [cmds EXCEPT ![id].done = TRUE]
        /\ objs' = Append(objs, NewStream(kind, c.index,
                                          IF kind = "record" THEN 0 ELSE c.credit,
                                          IF kind = "upload" THEN c.arg.step ELSE c.step,
                                          c.arg.maximumLength))
        /\ streams' = [streams EXCEPT ![kind] = Put(@, c.index, Len(objs) + 1)]
        /\ UNCHANGED <<props, tagstruct, rx,
                       protocol, connectAt, sock, sockListeners, transport,
                       disconnecting, requestTag,
                       requests, eventListeners, handlers, obs>>

----------------------------------------------------------------------------
(* The users of the streams *)

\* Bounds of the stream engines: bytes a producer writes in a run and the size
\* of one write; credit granted in a run and by one REQUEST; the frame sizes;
\* the finite maximum lengths; bytes of memory blocks received in a run and
\* the size of one block.
MaxWritten == 5
MaxChunk   == 3
MaxGranted == 5
MaxRequest == 3
MaxStep    == 2
MaxLength  == 3
MaxPushed  == 5
MaxBlock   == 3

\* Writable -> _write(data, encoding, next) with data of n bytes. A Writable
\* calls _write again only after the continuation of the previous call has
\* been invoked, and not after an error or destroy().
write(sid, n) ==
    /\ sid \in DOMAIN objs
    /\ objs[sid].kind \in {"playback", "upload"}
    /\ ~objs[sid].callback
    /\ objs[sid].refused = 0
    /\ ~objs[sid].destroyed
    /\ objs[sid].finalCmd = 0
    /\ objs[sid].written + n <= MaxWritten
    /\ objs' = [objs EXCEPT ![sid] = _write(@, n, sock # 0)]
    /\ UNCHANGED <<props, tagstruct, rx,
                   protocol, connectAt, sock, sockListeners, transport, disconnecting,
                   requestTag, requests,
                   cmds, eventListeners, handlers, streams, obs>>

\* stream._write(data, encoding, next) called while the continuation of an
\* earlier call is still stored, by a producer that does not go through
\* Writable.write (which waits for the continuation). The producer stops
\* at the first call that fails.
writeAgain(sid, n) ==
    /\ sid \in DOMAIN objs
    /\ objs[sid].kind \in {"playback", "upload"}
    /\ objs[sid].callback
    /\ objs[sid].refused = 0
    /\ ~objs[sid].thrown
    /\ ~objs[sid].destroyed
    /\ objs[sid].finalCmd = 0
    /\ objs[sid].written + n <= MaxWritten
    /\ objs' = [objs EXCEPT ![sid] = _write(@, n, sock # 0)]
    /\ UNCHANGED <<props, tagstruct, rx,
                   protocol, connectAt, sock, sockListeners, transport, disconnecting,
                   requestTag, requests,
                   cmds, eventListeners, handlers, streams, obs>>

\* Readable -> _read(). A Readable does not ask for data once it has been
\* given null or destroy() has been called.
read(sid) ==
    /\ sid \in DOMAIN objs
    /\ objs[sid].kind = "record"
    /\ ~objs[sid].ended
    /\ ~objs[sid].destroyed
    /\ objs' = [objs EXCEPT ![sid] = _readStream(@)]
    /\ UNCHANGED <<props, tagstruct, rx,
                   protocol, connectAt, sock, sockListeners, transport, disconnecting,
                   requestTag, requests,
                   cmds, eventListeners, handlers, streams, obs>>

\* stream.destroy(err), by the user or by autoDestroy: _destroy up to its
\* await. A second destroy() does nothing.
destroy(sid, err) ==
    /\ sid \in DOMAIN objs
    /\ ~objs[sid].destroyed
    /\ _invoke(DeleteCommand(objs[sid].kind), objs[sid].index)
    /\ objs' = [objs EXCEPT ![sid] = Destroying(@, err, Len(cmds) + 1)]
    /\ UNCHANGED <<props, tagstruct, rx,
                   protocol, connectAt, sock, sockListeners, transport, disconnecting,
                   eventListeners,
                   handlers, streams>>

\* A faulty end of _destroy: the stream stays in its registry.
_destroyKeep(sid) ==
    /\ sid \in DOMAIN objs
    /\ objs[sid].destroyed
    /\ ~objs[sid].closed
    /\ cmds[objs[sid].deleteCmd].state # "pending"
    /\ cmds' = [cmds EXCEPT ![objs[sid].deleteCmd].done = TRUE]
    /\ objs' = [objs EXCEPT ![sid] =
                  [(IF @.kind = "record" THEN pushNull(@) ELSE @) EXCEPT
                     !.closed = TRUE,
                     !.callbacks = @ + 1,
                     !.destroyError = DestroyError(cmds[objs[sid].deleteCmd],
                                                   objs[sid].destroyArg)]]
    /\ UNCHANGED <<props, tagstruct, rx,
                   protocol, connectAt, sock, sockListeners, transport, disconnecting,
                   requestTag,
                   requests, eventListeners, handlers, streams, obs>>

\* The rest of _destroy once the delete command has settled: catch, finally
\* (a RecordStream pushes null), callback(err); the stream then emits 'close'
\* and the listener of processResponse deletes the registry entry.
_destroy(sid) ==
    /\ sid \in DOMAIN objs
    /\ objs[sid].destroyed
    /\ ~objs[sid].closed
    /\ cmds[objs[sid].deleteCmd].state # "pending"
    /\ cmds' = [cmds EXCEPT ![objs[sid].deleteCmd].done = TRUE]
    /\ objs' = [objs EXCEPT ![sid] =
                  [(IF @.kind = "record" THEN pushNull(@) ELSE @) EXCEPT
                     !.closed = TRUE,
                     !.callbacks = @ + 1,
                     !.destroyError = DestroyError(cmds[objs[sid].deleteCmd],
                                                   objs[sid].destroyArg)]]
    /\ streams' = [streams EXCEPT ![objs[sid].kind] = Del(@, objs[sid].index)]
    /\ UNCHANGED <<props, tagstruct, rx,
                   protocol, connectAt, sock, sockListeners, transport, disconnecting,
                   requestTag,
                   requests, eventListeners, handlers, obs>>

\* Writable.end() once every write has been answered: _final(done) up to its
\* await, having sent the drain command of the stream's kind.
end(sid) ==
    /\ sid \in DOMAIN objs
    /\ objs[sid].kind \in {"playback", "upload"}
    /\ ~objs[sid].callback
    /\ objs[sid].refused = 0
    /\ ~objs[sid].destroyed
    /\ objs[sid].finalCmd = 0
    /\ _invoke(FinalCommand(objs[sid].kind), objs[sid].index)
    /\ objs' = [objs EXCEPT ![sid].finalCmd = Len(cmds) + 1]
    /\ UNCHANGED <<props, tagstruct, rx,
                   protocol, connectAt, sock, sockListeners, transport, disconnecting,
                   eventListeners,
                   handlers, streams>>

\* A faulty _final: done() is called without waiting for the drain command.
_finalEager(sid) ==
    LET s == objs[sid]
    IN  /\ sid \in DOMAIN objs
        /\ s.finalCmd # 0
        /\ ~s.finalDone
        /\ objs' = [objs EXCEPT ![sid] =
                      [@ EXCEPT !.finalDone = TRUE, !.finished = ~s.destroyed]]
        /\ UNCHANGED <<props, tagstruct, rx,
                       protocol, connectAt, sock, sockListeners, transport,
                       disconnecting, requestTag,
                       requests, cmds, eventListeners, handlers, streams, obs>>

\* The rest of _final once the drain command has settled: done() after a
\* reply, done(error) after a rejection. The Writable emits 'finish' after
\* done() unless it has been destroyed meanwhile; after done(error) it
\* destroys itself with the error (autoDestroy).
_final(sid) ==
    LET s == objs[sid]
        c == cmds[s.finalCmd]
    IN  /\ sid \in DOMAIN objs
        /\ s.finalCmd # 0
        /\ ~s.finalDone
        /\ c.state # "pending"
        /\ IF c.state = "resolved"
           THEN /\ objs' = [objs EXCEPT ![sid] =
                             [@ EXCEPT !.finalDone = TRUE, !.finished = ~s.destroyed]]
                /\ UNCHANGED <<requestTag, requests, cmds, obs>>
           ELSE IF s.destroyed
           THEN /\ objs' = [objs EXCEPT ![sid] =
                             [@ EXCEPT !.finalDone = TRUE, !.finalError = c.error]]
                /\ UNCHANGED <<requestTag, requests, cmds, obs>>
           ELSE /\ _invoke(DeleteCommand(s.kind), s.index)
                /\ objs' = [objs EXCEPT ![sid] =
                             Destroying([@ EXCEPT !.finalDone = TRUE,
                                                  !.finalError = c.error],
                                        c.error, Len(cmds) + 1)]
        /\ UNCHANGED <<props, tagstruct, rx,
                       protocol, connectAt, sock, sockListeners, transport,
                       disconnecting, eventListeners,
                       handlers, streams>>

----------------------------------------------------------------------------
(* Specifications *)

\* Nothing has been seen of the client yet.
\*   lastMask, maskSock  the mask of the last SUBSCRIBE written, and its transport
\*   readErrors   'error' events emitted by _read
\*   closeErrors  'error' events emitted by _closed, per transport
\*   userClose    disconnect() was called on the transport
\*   errorTable   the request table when _closed emitted 'error'
\*   emitted      the events emitted for the last SUBSCRIBE_EVENT
\*   lastThrow    the type of the last command whose constructor threw
\*   returned     disconnect() calls that returned the pending entry
NoObservations ==
    [lastMask |-> Null, maskSock |-> 0, readErrors |-> 0,
     closeErrors |-> [c \in Conns |-> 0], userClose |-> [c \in Conns |-> FALSE],
     errorTable |-> {}, emitted |-> <<>>, lastThrow |-> "none", returned |-> 0]

\* The client after its constructor.
Init ==
    /\ protocol = PA_NO_VALUE
    /\ connectAt = [at |-> "idle", cmd |-> 0]
    /\ sock = 0
    /\ sockListeners = [c \in Conns |-> {}]
    /\ transport = [c \in Conns |-> "none"]
    /\ disconnecting = FALSE
    /\ requestTag = TagModulus
    /\ requests = Empty
    /\ cmds = <<>>
    /\ eventListeners = 0
    /\ handlers = [name \in EventNames |-> 0]
    /\ streams = [k \in Kinds |-> Empty]
    /\ objs = <<>>
    /\ obs = NoObservations
    /\ props = <<>>
    /\ tagstruct = <<>>
    /\ rx = <<>>

\* The packets a server sends in the dispatcher's specification.
ReplyPackets ==
    { Packet("ok", PA_NO_INDEX, TRUE, "REPLY", t, TRUE, 0, 0, 1) : t \in Tags }
ErrorPackets ==
    { Packet("ok", PA_NO_INDEX, TRUE, "ERROR", t, TRUE, 0, e, 1) :
        t \in Tags, e \in {PA_ERR_INVALID, PA_ERR_NOENTITY} }
EventPackets ==
    { Packet("ok", PA_NO_INDEX, TRUE, type, PA_NO_TAG, TRUE, i, 0, 1) :
        type \in {"STARTED", "RECORD_STREAM_SUSPENDED"}, i \in Idx }
\* 0x12: sink_input changed
SubscribeEventPackets ==
    { Packet("ok", PA_NO_INDEX, TRUE, "SUBSCRIBE_EVENT", PA_NO_TAG, TRUE, 1, 18, 1) }
\* short descriptor, short body, body without a U32 command code, reply
\* without a tag, reply with the tag sentinel, ERROR without a code, an
\* unsupported command (TIMEOUT), events that fail to parse
BadPackets ==
    { Packet("shortHeader", PA_NO_INDEX, TRUE, "REPLY", 0, TRUE, 0, 0, 1),
      Packet("shortBody", PA_NO_INDEX, TRUE, "REPLY", 0, TRUE, 0, 0, 1),
      Packet("ok", PA_NO_INDEX, FALSE, "REPLY", 0, TRUE, 0, 0, 1),
      Packet("ok", PA_NO_INDEX, TRUE, "REPLY", Null, TRUE, 0, 0, 1),
      Packet("ok", PA_NO_INDEX, TRUE, "ERROR", PA_NO_TAG, TRUE, 0, PA_ERR_INVALID, 1),
      Packet("ok", PA_NO_INDEX, TRUE, "ERROR", 1, FALSE, 0, PA_ERR_INVALID, 1),
      Packet("ok", PA_NO_INDEX, TRUE, "TIMEOUT", PA_NO_TAG, TRUE, 0, 0, 1),
      Packet("ok", PA_NO_INDEX, TRUE, "STARTED", PA_NO_TAG, FALSE, 0, 0, 1),
      Packet("ok", PA_NO_INDEX, TRUE, "SUBSCRIBE_EVENT", PA_NO_TAG, TRUE, 1, 63, 1) }

\* The client with its first transport attached, the commands of connect()
\* and those that created its streams being done with.
Attached ==
    /\ protocol = PA_NATIVE_PROTOCOL_VERSION
    /\ connectAt = [at |-> "done", cmd |-> 0]
    /\ sock = 1
    /\ sockListeners = [c \in Conns |-> IF c = 1 THEN {"readable", "close", "error"} ELSE {}]
    /\ transport = [c \in Conns |-> IF c = 1 THEN "open" ELSE "none"]
    /\ disconnecting = FALSE
    /\ requestTag = TagModulus
    /\ requests = Empty
    /\ cmds = <<>>
    /\ eventListeners = 0
    /\ handlers = [name \in EventNames |-> 0]
    /\ obs = NoObservations
    /\ props = <<>>
    /\ tagstruct = <<>>
    /\ rx = <<>>

\* The attached client with one stream of each kind registered at index 0.
InitLive ==
    /\ Attached
    /\ streams = [k \in Kinds |->
                    Put(Empty, 0, CASE k = "playback" -> 1 [] k = "record" -> 2
                                    [] k = "upload" -> 3)]
    /\ objs = << NewStream("playback", 0, 0, 1, PA_NO_VALUE),
                 NewStream("record", 0, 0, 1, PA_NO_VALUE),
                 NewStream("upload", 0, 0, 1, MaxLength) >>

\* The life of the attached transport: closing on request, closing, failing
Link ==
    \/ disconnect
    \/ \E n \in Conns, ev \in {"close", "error"} : SockEvent(n, ev)

\* Packets from the server
Receive ==
    \E pkt \in ReplyPackets \cup ErrorPackets \cup EventPackets
               \cup SubscribeEventPackets \cup BadPackets : _read(pkt, FALSE)

Next == Command \/ Link \/ Receive

\* The dispatcher: commands, replies, events and the life of the transport.
Spec == InitLive /\ [][Next]_vars

NextDisconnect == Command \/ Link \/ disconnectPending \/ Receive

\* Callers of disconnect(): commands, their answers, the calls of
\* disconnect() and the life of the transport.
SpecDisconnect == InitLive /\ [][NextDisconnect]_vars

\* The attached client with one playback or upload stream, created with a
\* frame size, a first credit (requestedBytes of the create reply) and a
\* maximumLength.
InitPlayback ==
    \E kind \in {"playback", "upload"}, step \in 1 .. MaxStep,
       credit \in 0 .. MaxRequest, maximumLength \in {MaxLength, PA_NO_VALUE} :
        /\ Attached
        /\ streams = [k \in Kinds |-> IF k = kind THEN Put(Empty, 0, 1) ELSE Empty]
        /\ objs = << NewStream(kind, 0, credit, step, maximumLength) >>

\* The producer writes a chunk.
Produce == \E n \in 1 .. MaxChunk : write(1, n)

\* The server sends a REQUEST for a playback stream.
Request ==
    \E i \in Idx, n \in 0 .. MaxRequest :
        /\ objs[1].granted + n <= MaxGranted
        /\ _read(Packet("ok", PA_NO_INDEX, TRUE, "REQUEST", PA_NO_TAG, TRUE, i, n, 1), FALSE)

NextPlayback == Produce \/ Request \/ Link

\* The playback engine: a producer, the server's credit, the transport.
SpecPlayback == InitPlayback /\ [][NextPlayback]_vars

\* The playback engine with a server that keeps sending REQUEST events: as long
\* as the transport delivers them, a REQUEST that changes the stream is
\* eventually handled.
SpecPlaybackFair == InitPlayback /\ [][NextPlayback]_vars /\ WF_vars(Request)

\* The producer calls _write without waiting for the continuation.
Again == \E n \in 1 .. MaxChunk : writeAgain(1, n)

NextProducer == Produce \/ Again \/ Request \/ Link

\* The playback engine with a producer that does not always wait.
SpecProducer == InitPlayback /\ [][NextProducer]_vars

\* The attached client with one record stream, created with a maximumLength.
InitRecord ==
    \E maximumLength \in (0 .. MaxLength) \cup {PA_NO_VALUE} :
        /\ Attached
        /\ streams = [k \in Kinds |-> IF k = "record" THEN Put(Empty, 0, 1) ELSE Empty]
        /\ objs = << NewStream("record", 0, 0, 1, maximumLength) >>

\* The consumer asks for data.
Consume == read(1)

\* The server sends a memory block on a channel; the consumer's buffer may
\* be full after it.
Blocks ==
    \E channel \in Idx, len \in 1 .. MaxBlock, full \in BOOLEAN :
        /\ objs[1].pushed + len <= MaxPushed
        /\ _read(Packet("ok", channel, TRUE, "none", 0, TRUE, 0, len, 1), full)

\* The stream is destroyed, and its _destroy completes.
Destroy == (\E err \in {NoError, UserError} : destroy(1, err)) \/ _destroy(1)

\* The server answers a command.
Answers == \E pkt \in ReplyPackets \cup ErrorPackets : _read(pkt, FALSE)

NextRecord == Consume \/ Blocks \/ Destroy \/ Answers \/ Link

\* The record engine: a consumer, the server's memory blocks, the transport.
SpecRecord == InitRecord /\ [][NextRecord]_vars

\* The server reports a playback or a record stream killed.
KilledPackets ==
    { Packet("ok", PA_NO_INDEX, TRUE, type, PA_NO_TAG, TRUE, i, 0, 1) :
        type \in {"PLAYBACK_STREAM_KILLED", "RECORD_STREAM_KILLED"}, i \in Idx }
Kills == \E pkt \in KilledPackets : _read(pkt, FALSE)

\* The attached client with two streams: one of any kind at index 0, which
\* its user ends and destroys, and at index 1 a record stream (a playback
\* stream when the first is a record stream).
InitLifecycle ==
    \E kind \in Kinds :
        LET other == IF kind = "record" THEN "playback" ELSE "record"
        IN  /\ Attached
            /\ streams = [k \in Kinds |->
                            IF k = kind THEN Put(Empty, 0, 1)
                            ELSE IF k = other THEN Put(Empty, 1, 2)
                            ELSE Empty]
            /\ objs = << NewStream(kind, 0, 0, 1, PA_NO_VALUE),
                         NewStream(other, 1, 0, 1, PA_NO_VALUE) >>

\* The producer ends the first stream; a _final completes.
Ends == end(1) \/ \E sid \in DOMAIN objs : _final(sid)

\* The user destroys the first stream; a _destroy completes.
Destroys ==
    \/ \E err \in {NoError, UserError} : destroy(1, err)
    \/ \E sid \in DOMAIN objs : _destroy(sid)

\* The server answers a command: a reply, or an error with one of the codes
\* INVALID, NOENTITY, EXIST.
ExistPackets ==
    { Packet("ok", PA_NO_INDEX, TRUE, "ERROR", t, TRUE, 0, PA_ERR_EXIST, 1) : t \in Tags }
Verdicts ==
    \E pkt \in ReplyPackets \cup ErrorPackets \cup ExistPackets : _read(pkt, FALSE)

NextLifecycle == Ends \/ Destroys \/ Kills \/ Verdicts \/ Link

\* The life cycle of the streams: drain, destroy, killed, connection loss.
SpecLifecycle == InitLifecycle /\ [][NextLifecycle]_vars

\* The server sends a SUBSCRIBE_EVENT with any event code and index.
MaxEventCode == 70
EventIndices == {0, 5}
Notify ==
    \E c \in 0 .. MaxEventCode, i \in EventIndices :
        _read(Packet("ok", PA_NO_INDEX, TRUE, "SUBSCRIBE_EVENT", PA_NO_TAG, TRUE, i, c, 1), FALSE)

\* The server sends a well-formed event of any type for a playback stream or
\* for a record stream.
StreamEventPackets ==
    { Packet("ok", PA_NO_INDEX, TRUE, type, PA_NO_TAG, TRUE, i, 0, 1) :
        type \in PlaybackEvents \cup RecordEvents, i \in Idx }
StreamEvents == \E pkt \in StreamEventPackets : _read(pkt, FALSE)

NextStreamEvents == StreamEvents \/ Link

\* Stream events from the server for the registered streams.
SpecStreamEvents == InitLive /\ [][NextStreamEvents]_vars

NextStale == Blocks \/ StreamEvents \/ Destroy \/ Answers \/ Link

\* Memory blocks and stream events from the server for streams that are
\* registered, that never were and that have been destroyed.
SpecStale == InitRecord /\ [][NextStale]_vars

\* The attached client without streams.
InitBare ==
    /\ Attached
    /\ streams = [k \in Kinds |-> Empty]
    /\ objs = <<>>

NextNotify == Notify \/ Link

\* Subscription events from the server.
SpecNotify == InitBare /\ [][NextNotify]_vars

\* A faulty range check: every index passes.
IndexInRangeAny(index) == TRUE

\* SelectByIndex: the check of the index, made before super(cmd)
IndexInRange(index) ==
    ~((index < PA_MIN_INDEX \/ index > PA_MAX_INDEX) /\ index # PA_NO_INDEX)

\* The constructor of a command throws, before super(cmd) or after it (tagged:
\* the Command constructor has then taken a tag); _invoke is not reached.
\* obs.lastThrow keeps the type of the command.
Throw(type, tagged) ==
    /\ requestTag' = IF tagged THEN getRequestTag(requestTag) ELSE requestTag
    /\ obs' = [obs EXCEPT !.lastThrow = type]
    /\ UNCHANGED <<requests, cmds>>

\* setSourceOutputVolume(index, volumes), volumes being the length of the
\* array: new SetVolumeByIndex(...) checks the index (SelectByIndex), takes a
\* tag, checks the number of volumes; then _invoke.
setSourceOutputVolume(index, volumes) ==
    /\ IF ~IndexInRange(index)
       THEN Throw("SET_SOURCE_OUTPUT_VOLUME", FALSE)
       ELSE IF volumes < 1 \/ volumes > PA_MAX_CHANNELS
       THEN Throw("SET_SOURCE_OUTPUT_VOLUME", TRUE)
       ELSE _invoke("SET_SOURCE_OUTPUT_VOLUME", index)
    /\ UNCHANGED <<props, tagstruct, rx,
                   protocol, connectAt, sock, sockListeners, transport, disconnecting,
                   eventListeners, handlers, streams, objs>>

\* playSample(name), name being the length of the string: new PlaySample(name)
\* checks the name before super(...); the default sink is a name, which
\* SelectByNameOrIndex sends with the index PA_NO_INDEX.
playSample(name) ==
    /\ IF name = 0
       THEN Throw("PLAY_SAMPLE", FALSE)
       ELSE IF ~IndexInRange(PA_NO_INDEX)
       THEN Throw("PLAY_SAMPLE", FALSE)
       ELSE _invoke("PLAY_SAMPLE", PA_NO_INDEX)
    /\ UNCHANGED <<props, tagstruct, rx,
                   protocol, connectAt, sock, sockListeners, transport, disconnecting,
                   eventListeners, handlers, streams, objs>>

\* _authenticate(cookie, proto), cookie being the length of the buffer:
\* new Auth(cookie, proto) takes a tag and then checks the cookie.
_authenticate(cookie) ==
    /\ IF cookie # PA_NATIVE_COOKIE_LENGTH
       THEN Throw("AUTH", TRUE)
       ELSE _invoke("AUTH", PA_NATIVE_PROTOCOL_VERSION)
    /\ UNCHANGED <<props, tagstruct, rx,
                   protocol, connectAt, sock, sockListeners, transport, disconnecting,
                   eventListeners, handlers, streams, objs>>

\* createPlaybackStream({ sampleSpec }), channels being sampleSpec.channels:
\* new CreatePlaybackStream(opts) takes a tag; addSampleSpec (or parseOpts
\* before it) throws for a number of channels out of range.
createPlaybackStream(channels) ==
    IF channels < 0 \/ channels >= PA_MAX_CHANNELS
    THEN /\ Throw("CREATE_PLAYBACK_STREAM", TRUE)
         /\ UNCHANGED <<props, tagstruct, rx,
                        protocol, connectAt, sock, sockListeners, transport, disconnecting,
                        eventListeners, handlers, streams, objs>>
    ELSE CreateStream("playback", PA_NO_VALUE, 1)

\* The arguments callers pass: indices around the range and the sentinel,
\* numbers of volumes, name lengths, cookie lengths, numbers of channels.
CallIndices == {0 - 1, PA_MIN_INDEX, PA_MAX_INDEX, PA_NO_INDEX, PA_NO_INDEX + 1}
CallVolumes == {0, 1, PA_MAX_CHANNELS, PA_MAX_CHANNELS + 1}
CallNames == {0, 1}
CallCookies == {PA_NATIVE_COOKIE_LENGTH - 1, PA_NATIVE_COOKIE_LENGTH, PA_NATIVE_COOKIE_LENGTH + 1}
CallChannels == {0 - 1, 0, PA_MAX_CHANNELS - 1, PA_MAX_CHANNELS}

\* Calls of the API with arguments in and out of range, while fewer than
\* MaxCalls commands have been sent.
MaxCalls == 1
Calls ==
    \/ \E index \in CallIndices, volumes \in CallVolumes :
          Len(cmds) < MaxCalls /\ setSourceOutputVolume(index, volumes)
    \/ \E name \in CallNames : Len(cmds) < MaxCalls /\ playSample(name)
    \/ \E cookie \in CallCookies : Len(cmds) < MaxCalls /\ _authenticate(cookie)
    \/ \E channels \in CallChannels :
          Len(cmds) < MaxCalls /\ createPlaybackStream(channels)

\* The server replies to a command.
Replies == \E pkt \in ReplyPackets : _read(pkt, FALSE)

NextDrain == Produce \/ Request \/ Ends \/ Destroys \/ Replies

\* The playback engine up to the end of its stream, on a transport that
\* stays: the producer writes and ends, the user destroys, the server grants
\* credit and answers.
SpecDrain == InitPlayback /\ [][NextDrain]_vars

NextArguments == Calls \/ Replies

\* Commands and their arguments.
SpecArguments == InitBare /\ [][NextArguments]_vars

\* A faulty Auth.processResponse: the U32 is returned whole.
AuthProcessResponseWhole(v) == v

\* Auth.processResponse: v & Auth.PA_PROTOCOL_VERSION_MASK
AuthProcessResponse(v) == v % (PA_PROTOCOL_VERSION_MASK + 1)

\* connect() is rejected.
ConnectFailed == [at |-> "failed", cmd |-> 0]

\* connect() after `await connect(this.sock)`: the helper's promise is
\* resolved by 'connect', rejected by 'error' or 'close';
\* then _authenticate(cookie, PA_NATIVE_PROTOCOL_VERSION) up to its await.
connectAuthenticate ==
    /\ connectAt.at = "socket"
    /\ \/ /\ sock # 0
          /\ transport[sock] = "open"
          /\ _invoke("AUTH", PA_NATIVE_PROTOCOL_VERSION)
          /\ connectAt' = [at |-> "auth", cmd |-> Len(cmds) + 1]
       \/ /\ sock = 0
          /\ connectAt' = ConnectFailed
          /\ UNCHANGED <<requestTag, requests, cmds, obs>>
    /\ UNCHANGED <<props, tagstruct, rx,
                   protocol, sock, sockListeners, transport, disconnecting,
                   eventListeners, handlers, streams, objs>>

\* connect() after the await of _authenticate:
\*   this.protocol = c.processResponse(reply); then getServerInfo() up to its await.
connectGetServerInfo ==
    LET c == cmds[connectAt.cmd]
    IN  /\ connectAt.at = "auth"
        /\ c.state # "pending"
        /\ IF c.state = "rejected"
           THEN /\ connectAt' = ConnectFailed
                /\ UNCHANGED <<protocol, requestTag, requests, cmds, obs>>
           ELSE /\ protocol' = AuthProcessResponse(c.value)
                /\ _invoke("GET_SERVER_INFO", 0)
                /\ connectAt' = [at |-> "info", cmd |-> Len(cmds) + 1]
        /\ UNCHANGED <<props, tagstruct, rx,
                       sock, sockListeners, transport, disconnecting,
                       eventListeners, handlers, streams, objs>>

\* connect() after the await of getServerInfo: the throw for a protocol older
\* than PA_NATIVE_PROTOCOL_VERSION, else setClientProperties(props) up to its
\* await.
connectSetClientProperties ==
    LET c == cmds[connectAt.cmd]
    IN  /\ connectAt.at = "info"
        /\ c.state # "pending"
        /\ IF c.state = "rejected" \/ protocol < PA_NATIVE_PROTOCOL_VERSION
           THEN /\ connectAt' = ConnectFailed
                /\ UNCHANGED <<requestTag, requests, cmds, obs>>
           ELSE /\ _invoke("SET_CLIENT_NAME", 0)
                /\ connectAt' = [at |-> "name", cmd |-> Len(cmds) + 1]
        /\ UNCHANGED <<props, tagstruct, rx,
                       protocol, sock, sockListeners, transport, disconnecting,
                       eventListeners, handlers, streams, objs>>

\* connect() after the await of setClientProperties: it returns or throws.
connectReturn ==
    LET c == cmds[connectAt.cmd]
    IN  /\ connectAt.at = "name"
        /\ c.state # "pending"
        /\ connectAt' = IF c.state = "rejected" THEN ConnectFailed
                        ELSE [at |-> "done", cmd |-> 0]
        /\ UNCHANGED <<props, tagstruct, rx,
                       protocol, sock, sockListeners, transport, disconnecting, requestTag,
                       requests, cmds, eventListeners, handlers, streams, objs, obs>>

\* The U32 a server puts into its reply to AUTH: versions 31, 32 and 33
\* without flags, and 31 and 32 with a flag in the upper half (0x0100001F,
\* 0x01000020).
Versions == {31, 32, 33, 16777247, 16777248}

\* The server answers a command of connect(): a reply (the model keeps its
\* U32 for AUTH) or an error.
Handshake ==
    \E pkt \in { Packet("ok", PA_NO_INDEX, TRUE, "REPLY", t, TRUE, 0, v, 1) :
                    t \in Tags, v \in Versions } \cup ErrorPackets :
        _read(pkt, FALSE)

\* The one call of connect().
Connecting ==
    \/ connectAt.at = "idle" /\ connect
    \/ connectAuthenticate
    \/ connectGetServerInfo
    \/ connectSetClientProperties
    \/ connectReturn

NextConnect == Connecting \/ Handshake \/ Link

\* connect(): the transport, authentication, the version check, the client name.
SpecConnect == Init /\ [][NextConnect]_vars

\* Listeners come and go.
Listeners ==
    \E name \in EventNames : _newListener(name) \/ _removeListener(name)

NextEvents == Listeners \/ Answers \/ connect \/ Link

\* Event subscription: listeners, the answers to SUBSCRIBE, the transports.
SpecEvents == Init /\ [][NextEvents]_vars

NextSubscribe == Listeners \/ Connecting \/ Handshake \/ Link

\* Event subscription around connect(): listeners come and go before, during
\* and after the one call of connect().
SpecSubscribe == Init /\ [][NextSubscribe]_vars

----------------------------------------------------------------------------
(* Property trees (props.ts) *)

\* Entries of one object of a tree; strings a leaf takes.
MaxEntries == 2
MaxValues == 2

\* An object keeps its entries in insertion order, as Object.entries returns
\* them. A key is the sequence of the names its dots separate, each name a
\* record of the number of '@' it starts with (at) and the rest (name). An
\* entry holds a string (Leaf) or an object (Branch). Strings are sequences
\* of bytes, their UTF-8 encoding.
Leaf(key, val) == [key |-> key, leaf |-> TRUE, val |-> val, sub |-> <<>>]
Branch(key, sub) == [key |-> key, leaf |-> FALSE, val |-> <<>>, sub |-> sub]

\* obj[key] = entry: an existing key keeps its place, a new one goes last.
Assign(obj, key, entry) ==
    IF \E i \in DOMAIN obj : obj[i].key = key
    THEN [i \in DOMAIN obj |-> IF obj[i].key = key THEN entry ELSE obj[i]]
    ELSE Append(obj, entry)

\* deflate(props, res, prefix): an object is flattened under prefix + key + '.',
\* a string is stored under prefix + key, a leading '@' of the key removed.
RECURSIVE deflate(_, _, _)
deflate(tree, res, prefix) ==
    IF tree = <<>> THEN res
    ELSE LET e == Head(tree)
             k == IF e.key[1].at > 0 THEN [e.key EXCEPT ![1].at = @ - 1] ELSE e.key
         IN  deflate(Tail(tree),
                     IF ~e.leaf THEN deflate(e.sub, res, prefix \o e.key)
                     ELSE Assign(res, prefix \o k, Leaf(prefix \o k, e.val)),
                     prefix)

\* One round of the outer loop of inflate, c being what is left of the split
\* key: a string found on the way is moved to the '@' sibling and deleted, a
\* missing object is created, and the last name is assigned the value.
RECURSIVE inflateKey(_, _, _)
inflateKey(l, c, val) ==
    LET k   == <<c[1]>>
        at  == <<[c[1] EXCEPT !.at = @ + 1]>>
        old == { l[i] : i \in { j \in DOMAIN l : l[j].key = k /\ l[j].leaf } }
        l1  == IF old = {} THEN l
               ELSE SelectSeq(Assign(l, at, Leaf(at, (CHOOSE e \in old : TRUE).val)),
                              LAMBDA e : e.key # k)
        l2  == IF \E i \in DOMAIN l1 : l1[i].key = k THEN l1
               ELSE Append(l1, Branch(k, <<>>))
    IN  IF Len(c) = 1 THEN Assign(l, k, Leaf(k, val))
        ELSE [i \in DOMAIN l2 |->
                IF l2[i].key = k
                THEN [l2[i] EXCEPT !.sub = inflateKey(@, Tail(c), val)]
                ELSE l2[i]]

\* inflate(props): the entries of the flat object, in order.
RECURSIVE inflate(_, _)
inflate(flat, res) ==
    IF flat = <<>> THEN res
    ELSE inflate(Tail(flat), inflateKey(res, Head(flat).key, Head(flat).val))

\* The trees handed to deflate: the names "id" and "p" with and without '@',
\* the key "p.id", the values "v1", "v2", .. (strings are held as their UTF-8
\* bytes), objects of up to MaxEntries entries, two levels deep.
PropTrees ==
    LET id == <<105, 100>>
        p  == <<112>>
        keys == { <<[at |-> at, name |-> name]>> : at \in 0 .. 1, name \in {id, p} }
                  \cup { << [at |-> 0, name |-> p], [at |-> 0, name |-> id] >> }
        leaves == { Leaf(k, <<118, 48 + v>>) : k \in keys, v \in 1 .. MaxValues }
        Objects(entries) ==
            { o \in UNION { [1 .. n -> entries] : n \in 0 .. MaxEntries } :
                \A i, j \in DOMAIN o : o[i].key = o[j].key => i = j }
    IN  Objects(leaves \cup { Branch(k, sub) : k \in keys, sub \in Objects(leaves) })

\* const flat = deflate(tree), for a tree the caller has built.
Deflates ==
    /\ props = <<>>
    /\ \E tree \in PropTrees :
         props' = [at |-> "flat", tree |-> tree, flat |-> deflate(tree, <<>>, <<>>),
                   res |-> <<>>]
    /\ UNCHANGED <<tagstruct, rx, protocol, connectAt, sock, sockListeners, transport,
                   disconnecting, requestTag, requests, cmds, eventListeners,
                   handlers, streams, objs, obs>>

\* const res = inflate(flat)
Inflates ==
    /\ props # <<>>
    /\ props.at = "flat"
    /\ props' = [props EXCEPT !.at = "res", !.res = inflate(props.flat, <<>>)]
    /\ UNCHANGED <<tagstruct, rx, protocol, connectAt, sock, sockListeners, transport,
                   disconnecting, requestTag, requests, cmds, eventListeners,
                   handlers, streams, objs, obs>>

NextProps == Deflates \/ Inflates

\* Property trees through deflate and inflate.
SpecProps == Init /\ [][NextProps]_vars

----------------------------------------------------------------------------
(* Tagged values (TagStruct of packet.ts) *)

\* Values added to one TagStruct.
MaxParts == 2

\* enum PA_TAG: the character codes of the tags.
PA_TAG ==
    [STRING |-> 116, STRING_NULL |-> 78, U32 |-> 76, U8 |-> 66, U64 |-> 82,
     S64 |-> 114, SAMPLE_SPEC |-> 97, ARBITRARY |-> 120, BOOLEAN_TRUE |-> 49,
     BOOLEAN_FALSE |-> 48, TIMEVAL |-> 84, USEC |-> 85, CHANNEL_MAP |-> 109,
     CVOLUME |-> 118, PROPLIST |-> 80, VOLUME |-> 86, FORMAT_INFO |-> 102]

\* A number of 32 or 64 bits is held as its digits in base 256, the most
\* significant first and not 0. The big-endian writers of Buffer fill w
\* bytes with them, the readers take the number back from w bytes.
WriteBE(v, w) == [k \in 1 .. w |-> IF k <= w - Len(v) THEN 0 ELSE v[k - (w - Len(v))]]

RECURSIVE ReadBE(_)
ReadBE(bytes) == IF bytes # <<>> /\ bytes[1] = 0 THEN ReadBE(Tail(bytes)) ELSE bytes

\* The digits of a length.
RECURSIVE Digits(_)
Digits(n) == IF n = 0 THEN <<>> ELSE Append(Digits(n \div 256), n % 256)

\* add<Type>(v): the bytes written at the cursor, and whether the call
\* returned (ok) or threw after writing them. A byte cell takes a number
\* modulo 256. writeBigInt64BE takes -2^63 .. 2^63 - 1 and throws a
\* RangeError for more. A string is held as its UTF-8 bytes; the strings of a
\* property list are ASCII here, their length being their number of bytes.
RECURSIVE add(_, _)
add(type, v) ==
    LET Ok(bytes) == [ok |-> TRUE, bytes |-> bytes]
        Threw(bytes) == [ok |-> FALSE, bytes |-> bytes]
        RECURSIVE KeyString(_)
        KeyString(path) ==
            [k \in 1 .. path[1].at |-> 64] \o path[1].name
                \o (IF Len(path) = 1 THEN <<>> ELSE <<46>> \o KeyString(Tail(path)))
        prop(e) ==
            add("STRING", [null |-> FALSE, chars |-> KeyString(e.key)]).bytes
                \o add("U32", Digits(Len(e.val) + 1)).bytes
                \o add("ARBITRARY", e.val \o <<0>>).bytes
    IN  CASE type = "U8" -> Ok(<<PA_TAG.U8, v % 256>>)
          [] type = "U32" -> Ok(<<PA_TAG.U32>> \o WriteBE(v, 4))
          [] type = "U64" ->
                IF Len(v) = 8 /\ v[1] >= 128 THEN Threw(<<PA_TAG.U64>>)
                ELSE Ok(<<PA_TAG.U64>> \o WriteBE(v, 8))
          [] type = "STRING" ->
                IF v.null THEN Ok(<<PA_TAG.STRING_NULL>>)
                ELSE Ok(<<PA_TAG.STRING>> \o v.chars \o <<0>>)
          [] type = "ARBITRARY" ->
                Ok(<<PA_TAG.ARBITRARY>> \o WriteBE(Digits(Len(v)), 4) \o v)
          [] type = "BOOLEAN" ->
                Ok(<<IF v THEN PA_TAG.BOOLEAN_TRUE ELSE PA_TAG.BOOLEAN_FALSE>>)
          [] type = "SAMPLE_SPEC" ->
                IF v.channels < 0 \/ v.channels >= PA_MAX_CHANNELS
                THEN Threw(<<PA_TAG.SAMPLE_SPEC, v.format % 256>>)
                ELSE Ok(<<PA_TAG.SAMPLE_SPEC, v.format % 256, v.channels % 256>>
                            \o WriteBE(v.rate, 4))
          [] type = "CHANNEL_MAP" ->
                Ok(<<PA_TAG.CHANNEL_MAP, Len(v) % 256>> \o [j \in DOMAIN v |-> v[j] % 256])
          [] type = "CVOLUME" ->
                Ok(<<PA_TAG.CVOLUME, Len(v) % 256>>
                       \o Flatten([j \in DOMAIN v |-> WriteBE(v[j], 4)]))
          [] type = "VOLUME" -> Ok(<<PA_TAG.VOLUME>> \o WriteBE(v, 4))
          [] type = "PROPLIST" ->
                LET p == deflate(v, <<>>, <<>>)
                IN  Ok(<<PA_TAG.PROPLIST>> \o Flatten([j \in DOMAIN p |-> prop(p[j])])
                           \o <<PA_TAG.STRING_NULL>>)
          [] type = "FORMAT_INFO" ->
                Ok(<<PA_TAG.FORMAT_INFO>> \o add("U8", v.encoding).bytes
                       \o add("PROPLIST", v.properties).bytes)

\* get<Type>() on body with the cursor at i (counted from 0): whether it
\* returned (ok) or threw, the value returned and the cursor afterwards.
\* "entries" is the while loop of getProps: the (key, value) pairs up to the
\* null string, in their order (the keys of a written list are distinct).
RECURSIVE get(_, _, _)
get(type, body, i) ==
    LET Threw == [ok |-> FALSE, rv |-> <<>>, i |-> i]
        Rv(rv, j) == [ok |-> TRUE, rv |-> rv, i |-> j]
        \* assert(wanted) fails, or the byte at the cursor is not the tag
        Bad(wanted, tag) == Len(body) - i < wanted \/ body[i + 1] # tag
        At(j, n) == SubSeq(body, j + 1, j + n)
        \* readBigInt64BE: a negative number is held as -1 and its eight bytes
        BigInt64(b) == IF b[1] >= 128 THEN <<-1>> \o b ELSE ReadBE(b)
        RECURSIVE Split(_, _)
        Split(chars, c) ==
            IF chars = <<>> THEN <<c>>
            ELSE IF Head(chars) = 46
            THEN <<c>> \o Split(Tail(chars), [at |-> 0, name |-> <<>>])
            ELSE IF Head(chars) = 64 /\ c.name = <<>>
            THEN Split(Tail(chars), [c EXCEPT !.at = @ + 1])
            ELSE Split(Tail(chars), [c EXCEPT !.name = Append(@, Head(chars))])
    IN  CASE type = "U8" ->
                IF Bad(2, PA_TAG.U8) THEN Threw ELSE Rv(body[i + 2], i + 2)
          [] type = "U32" ->
                IF Bad(5, PA_TAG.U32) THEN Threw ELSE Rv(ReadBE(At(i + 1, 4)), i + 5)
          [] type = "U64" ->
                IF Bad(9, PA_TAG.U64) THEN Threw ELSE Rv(ReadBE(At(i + 1, 8)), i + 9)
          [] type = "USEC" ->
                IF Bad(9, PA_TAG.USEC) THEN Threw ELSE Rv(BigInt64(At(0, 8)), i + 9)
          [] type = "STRING" ->
                LET zeros == { j \in (i + 2) .. Len(body) : body[j] = 0 }
                    z == CHOOSE j \in zeros : \A k \in zeros : j <= k
                IN  IF Len(body) - i < 1 THEN Threw
                    ELSE IF body[i + 1] = PA_TAG.STRING_NULL
                    THEN Rv([null |-> TRUE, chars |-> <<>>], i + 1)
                    ELSE IF body[i + 1] # PA_TAG.STRING \/ zeros = {} THEN Threw
                    ELSE Rv([null |-> FALSE, chars |-> SubSeq(body, i + 2, z - 1)], z)
          [] type = "ARBITRARY" ->
                LET lens == { n \in 0 .. Len(body) : Digits(n) = ReadBE(At(i + 1, 4)) }
                    len == CHOOSE n \in lens : TRUE
                IN  IF Bad(5, PA_TAG.ARBITRARY) THEN Threw
                    ELSE IF lens = {} \/ Len(body) - (i + 5) < len THEN Threw
                    ELSE Rv(At(i + 5, len), i + 5 + len)
          [] type = "BOOLEAN" ->
                IF Len(body) - i < 1 THEN Threw
                ELSE IF body[i + 1] = PA_TAG.BOOLEAN_TRUE THEN Rv(TRUE, i + 1)
                ELSE IF body[i + 1] = PA_TAG.BOOLEAN_FALSE THEN Rv(FALSE, i + 1)
                ELSE Threw
          [] type = "SAMPLE_SPEC" ->
                IF Bad(7, PA_TAG.SAMPLE_SPEC) THEN Threw
                ELSE Rv([format |-> body[i + 2], channels |-> body[i + 3],
                         rate |-> ReadBE(At(i + 3, 4))], i + 7)
          [] type = "CHANNEL_MAP" ->
                IF Bad(2, PA_TAG.CHANNEL_MAP) THEN Threw
                ELSE IF Len(body) - (i + 2) < body[i + 2] THEN Threw
                ELSE Rv(At(i + 2, body[i + 2]), i + 2 + body[i + 2])
          [] type = "CVOLUME" ->
                IF Bad(2, PA_TAG.CVOLUME) THEN Threw
                ELSE IF Len(body) - (i + 2) < body[i + 2] * 4 THEN Threw
                ELSE Rv([j \in 1 .. body[i + 2] |-> ReadBE(At(i + 2 + 4 * (j - 1), 4))],
                        i + 2 + 4 * body[i + 2])
          [] type = "VOLUME" ->
                IF Bad(5, PA_TAG.VOLUME) THEN Threw ELSE Rv(ReadBE(At(i + 1, 4)), i + 5)
          [] type = "entries" ->
                LET key == get("STRING", body, i)
                    len == get("U32", body, key.i)
                    val == get("ARBITRARY", body, len.i)
                    rest == get("entries", body, val.i)
                IN  IF ~key.ok THEN Threw
                    ELSE IF key.rv.null THEN Rv(<<>>, key.i)
                    ELSE IF ~len.ok \/ ~val.ok \/ ~rest.ok THEN Threw
                    ELSE Rv(<<Leaf(Split(key.rv.chars, [at |-> 0, name |-> <<>>]),
                                   SubSeq(val.rv, 1, Len(val.rv) - 1))>> \o rest.rv,
                            rest.i)
          [] type = "PROPLIST" ->
                LET flat == get("entries", body, i + 1)
                IN  IF Bad(1, PA_TAG.PROPLIST) \/ ~flat.ok THEN Threw
                    ELSE Rv(inflate(flat.rv, <<>>), flat.i)
          [] type = "FORMAT_INFO" ->
                LET encoding == get("U8", body, i + 1)
                    properties == get("PROPLIST", body, encoding.i)
                IN  IF Bad(1, PA_TAG.FORMAT_INFO) \/ ~encoding.ok \/ ~properties.ok
                    THEN Threw
                    ELSE Rv([encoding |-> encoding.rv, properties |-> properties.rv],
                            properties.i)

\* The values added, by type: the ends of each range of numbers and values
\* in between, null and strings ("", "a", "é"), blocks of bytes, and
\* property trees with and without a subtree.
TagValues ==
    LET tree == <<Leaf(<<[at |-> 0, name |-> <<105, 100>>]>>, <<118, 49>>)>>
        trees == { <<>>, tree, <<Branch(<<[at |-> 0, name |-> <<112>>]>>, tree)>> }
        u32 == { <<>>, <<1, 0>>, <<255, 255, 255, 255>> }
    IN  [U8 |-> {0, 255},
         U32 |-> u32,
         U64 |-> { <<>>, <<1, 0, 0, 0, 0>>, <<127, 255, 255, 255, 255, 255, 255, 255>>,
                   <<128, 0, 0, 0, 0, 0, 0, 0>>, <<255, 255, 255, 255, 255, 255, 255, 255>> },
         STRING |-> { [null |-> TRUE, chars |-> <<>>] }
                      \cup { [null |-> FALSE, chars |-> c] : c \in { <<>>, <<97>>, <<195, 169>> } },
         ARBITRARY |-> { <<>>, <<0>>, <<1, 2, 3>> },
         BOOLEAN |-> BOOLEAN,
         SAMPLE_SPEC |-> { [format |-> 3, channels |-> c, rate |-> <<172, 68>>] : c \in {2, 31} },
         CHANNEL_MAP |-> { <<>>, <<1, 2>> },
         CVOLUME |-> { <<>>, <<<<1, 0, 0>>>>, <<<<>>, <<255, 255, 255, 255>>>> },
         VOLUME |-> u32,
         PROPLIST |-> trees,
         FORMAT_INFO |-> { [encoding |-> 1, properties |-> t] : t \in trees }]

\* tag.add<Type>(v) on a TagStruct made with new TagStruct(), or on the one
\* being written.
Adds ==
    /\ IF tagstruct = <<>> THEN TRUE
       ELSE tagstruct.at = "writing" /\ Len(tagstruct.parts) < MaxParts
    /\ \E type \in DOMAIN TagValues : \E v \in TagValues[type] :
         LET old == IF tagstruct = <<>>
                    THEN [at |-> "writing", body |-> <<>>, i |-> 0, parts |-> <<>>,
                          got |-> <<>>]
                    ELSE tagstruct
             r == add(type, v)
         IN  tagstruct' = [old EXCEPT !.at = IF r.ok THEN "writing" ELSE "threw",
                                      !.body = @ \o r.bytes,
                                      !.i = @ + Len(r.bytes),
                                      !.parts = Append(@, [type |-> type, v |-> v])]
    /\ UNCHANGED <<props, rx, protocol, connectAt, sock, sockListeners, transport,
                   disconnecting, requestTag, requests, cmds, eventListeners,
                   handlers, streams, objs, obs>>

\* tag.finalize(), and new TagStruct(header, body) on what it returned.
Finalizes ==
    /\ tagstruct # <<>>
    /\ tagstruct.at = "writing"
    /\ tagstruct' = [tagstruct EXCEPT !.at = "reading", !.i = 0]
    /\ UNCHANGED <<props, rx, protocol, connectAt, sock, sockListeners, transport,
                   disconnecting, requestTag, requests, cmds, eventListeners,
                   handlers, streams, objs, obs>>

\* tag.get<Type>() for the type of the next value of the body.
Gets ==
    /\ tagstruct # <<>>
    /\ tagstruct.at = "reading"
    /\ Len(tagstruct.got) < Len(tagstruct.parts)
    /\ LET r == get(tagstruct.parts[Len(tagstruct.got) + 1].type, tagstruct.body,
                    tagstruct.i)
       IN  tagstruct' = [tagstruct EXCEPT !.at = IF r.ok THEN "reading" ELSE "threw",
                                          !.i = r.i,
                                          !.got = Append(@, r.rv)]
    /\ UNCHANGED <<props, rx, protocol, connectAt, sock, sockListeners, transport,
                   disconnecting, requestTag, requests, cmds, eventListeners,
                   handlers, streams, objs, obs>>

NextTagStruct == Adds \/ Finalizes \/ Gets

\* Values written to a TagStruct and read back from its body.
SpecTagStruct == Init /\ [][NextTagStruct]_vars

\* new TagStruct(header, body) on a body of the server: U32 and USEC values
\* (tag 'U' and 8 bytes, big-endian), as in the replies that carry latencies.
Receives ==
    /\ tagstruct = <<>>
    /\ \E count \in 1 .. MaxParts + 1 :
       \E type \in [1 .. count -> {"U32", "USEC"}] :
       \E v \in [1 .. count -> { <<>>, <<1, 0>>, <<3, 2, 1, 0, 0, 0, 0, 0>>,
                                 <<255, 255, 255, 255>> }] :
           LET bytes(k) == IF type[k] = "U32" THEN add("U32", v[k]).bytes
                           ELSE <<PA_TAG.USEC>> \o WriteBE(v[k], 8)
           IN  /\ \A k \in 1 .. count : type[k] = "U32" => Len(v[k]) <= 4
               /\ tagstruct' = [at |-> "reading",
                                body |-> Flatten([k \in 1 .. count |-> bytes(k)]),
                                i |-> 0,
                                parts |-> [k \in 1 .. count |-> [type |-> type[k], v |-> v[k]]],
                                got |-> <<>>]
    /\ UNCHANGED <<props, rx, protocol, connectAt, sock, sockListeners, transport,
                   disconnecting, requestTag, requests, cmds, eventListeners,
                   handlers, streams, objs, obs>>

NextUsec == Receives \/ Gets

\* Bodies of the server read value by value.
SpecUsec == Init /\ [][NextUsec]_vars

(***************************************************************************)
(* The packet framer (PulseAudio._read of packet.ts)                       *)
(***************************************************************************)

MaxPackets == 2
MaxBody    == 2

PA_STREAM_DESCRIPTOR_SIZE == 20

\* The server's byte stream: up to MaxPackets packets, each a descriptor
\* (length, channel, offsetHi, offsetLo, flags as 32-bit big-endian words)
\* followed by length body bytes. A packet is a memory block of channel 0 or
\* a control packet (channel 0xFFFFFFFF); offsetLo and the body bytes tell
\* the packets of a stream apart.
Sends ==
    /\ rx = <<>>
    /\ \E count \in 1 .. MaxPackets :
       \E length \in [1 .. count -> 0 .. MaxBody] :
       \E control \in [1 .. count -> BOOLEAN] :
           LET channel(p) == IF control[p] THEN <<255, 255, 255, 255>> ELSE <<0, 0, 0, 0>>
               header(p)  == <<0, 0, 0, length[p]>> \o channel(p) \o <<0, 0, 0, 0>>
                                 \o <<0, 0, 0, p>> \o <<0, 0, 0, 0>>
               body(p)    == [j \in 1 .. length[p] |-> 16 * p + j]
               packets    == [p \in 1 .. count |-> [header |-> header(p), body |-> body(p)]]
               RECURSIVE bytes(_)
               bytes(p)   == IF p > count THEN <<>>
                             ELSE header(p) \o body(p) \o bytes(p + 1)
           IN  rx' = [packets |-> packets, wire |-> bytes(1), buffer |-> <<>>,
                      arrived |-> 0, ended |-> FALSE,
                      header |-> <<>>, packetLength |-> Null,
                      parsed |-> <<>>, errors |-> 0]
    /\ UNCHANGED <<props, tagstruct,
                   protocol, connectAt, sock, sockListeners, transport, disconnecting,
                   requestTag, requests,
                   cmds, eventListeners, handlers, streams, objs, obs>>

\* One turn of the loop of PulseAudio._read() on the receiving side r, and
\* whether the loop goes on. sock.read(n) returns n buffered bytes; when
\* fewer are buffered it returns null, or what is left once the stream has
\* ended; sock.read(0) returns null. null is written <<>>, which sock.read
\* never returns. The dispatcher is _parse with no stream registered: a
\* memory block is dropped, a control packet of fewer than 5 bytes makes it
\* throw.
_readPacket(r) ==
    LET sockRead(buffer, n) ==
            IF n # 0 /\ Len(buffer) >= n
            THEN [data |-> SubSeq(buffer, 1, n), rest |-> SubSeq(buffer, n + 1, Len(buffer))]
            ELSE IF n # 0 /\ r.ended /\ buffer # <<>>
                 THEN [data |-> buffer, rest |-> <<>>]
                 ELSE [data |-> <<>>, rest |-> buffer]
        readUInt32BE(b) == ((b[1] * 256 + b[2]) * 256 + b[3]) * 256 + b[4]
        throws(header, body) ==
            /\ SubSeq(header, 5, 8) = <<255, 255, 255, 255>>
            /\ Len(body) < 5 \/ body[1] # PA_TAG.U32
        returns(s) == [r |-> s, more |-> FALSE]
        raised(s)  == [r |-> [s EXCEPT !.errors = @ + 1], more |-> FALSE]
        head == sockRead(r.buffer, PA_STREAM_DESCRIPTOR_SIZE)
    IN  IF r.packetLength = Null /\ head.data = <<>>
        THEN returns([r EXCEPT !.header = <<>>])
        ELSE IF r.packetLength = Null /\ Len(head.data) # PA_STREAM_DESCRIPTOR_SIZE
        THEN raised([r EXCEPT !.header = head.data, !.buffer = head.rest])
        ELSE LET r1 == IF r.packetLength = Null
                       THEN [r EXCEPT !.header = head.data, !.buffer = head.rest,
                                      !.packetLength = readUInt32BE(head.data)]
                       ELSE r
                 body == sockRead(r1.buffer, r1.packetLength)
                 r2 == [r1 EXCEPT !.buffer = body.rest]
                 r3 == [r2 EXCEPT !.parsed = Append(@, [header |-> r1.header,
                                                        body |-> body.data])]
             IN  IF body.data = <<>>
                 THEN returns(r1)
                 ELSE IF Len(body.data) # r1.packetLength \/ r1.header = <<>>
                 THEN raised(r2)
                 ELSE IF throws(r1.header, body.data)
                 THEN raised(r3)
                 ELSE [r |-> [r3 EXCEPT !.packetLength = Null, !.header = <<>>],
                       more |-> TRUE]

\* A faulty _read: it returns after the first packet.
_readOne(r) ==
    _readPacket(r).r

\* PulseAudio._read() on the receiving side r, up to its return
RECURSIVE _readBytes(_)
_readBytes(r) ==
    IF _readPacket(r).more THEN _readBytes(_readPacket(r).r) ELSE _readPacket(r).r

\* n more bytes of the stream arrive: the socket buffers them and emits
\* 'readable', and _read runs.
Readable ==
    /\ rx # <<>>
    /\ ~rx.ended
    /\ \E n \in 1 .. Len(rx.wire) :
           rx' = _readBytes([rx EXCEPT !.buffer = @ \o SubSeq(rx.wire, 1, n),
                                       !.wire = SubSeq(@, n + 1, Len(@)),
                                       !.arrived = @ + n])
    /\ UNCHANGED <<props, tagstruct,
                   protocol, connectAt, sock, sockListeners, transport, disconnecting,
                   requestTag, requests,
                   cmds, eventListeners, handlers, streams, objs, obs>>

\* The server ends the stream; the bytes that had not arrived never do. The
\* socket emits 'readable' once more and _read runs.
StreamEnds ==
    /\ rx # <<>>
    /\ ~rx.ended
    /\ rx' = _readBytes([rx EXCEPT !.ended = TRUE, !.wire = <<>>])
    /\ UNCHANGED <<props, tagstruct,
                   protocol, connectAt, sock, sockListeners, transport, disconnecting,
                   requestTag, requests,
                   cmds, eventListeners, handlers, streams, objs, obs>>

NextFraming == Sends \/ Readable \/ StreamEnds

SpecFraming == Init /\ [][NextFraming]_vars

\* The framer on a transport that delivers: the bytes the server has sent
\* eventually arrive, with a 'readable' notification.
SpecFramingFair == Init /\ [][NextFraming]_vars /\ WF_vars(Readable)

----------------------------------------------------------------------------
(* Properties of the dispatcher *)

\* The commands that are outstanding: their promise is still pending.
Outstanding == { i \in DOMAIN cmds : cmds[i].state = "pending" }

\* The commands the request table holds.
InTable == { requests[t] : t \in DOMAIN requests }

\* C3: the step that dispatches a REPLY or ERROR packet carrying tag t
\* completes exactly the request registered under t - resolved for a REPLY,
\* rejected with the code of the packet for an ERROR - and leaves every
\* other command as it was; after the step t is not in the request table, so
\* it is absent when the completion is observed. This holds for every
\* interleaving of commands and replies.
C3_ReplyCompletesItsRequest ==
    [][ \A pkt \in ReplyPackets \cup ErrorPackets :
          (_read(pkt, FALSE) /\ ~Throws(pkt)) =>
             LET id == requests[pkt.tag]
             IN  /\ cmds[id].tag = pkt.tag
                 /\ cmds[id].state = "pending"
                 /\ cmds'[id].state =
                      (IF pkt.type = "REPLY" THEN "resolved" ELSE "rejected")
                 /\ cmds'[id].error =
                      (IF pkt.type = "REPLY" THEN NoError ELSE PulseError(pkt.n))
                 /\ \A j \in DOMAIN cmds : j # id => cmds'[j].state = cmds[j].state
                 /\ pkt.tag \notin DOMAIN requests' ]_vars

\* Replies arrived out of order: the second command is resolved and gone from
\* the table while the first is still pending and registered.
C3_Witness ==
    /\ Len(cmds) >= 2
    /\ cmds[1].state = "pending"
    /\ cmds[2].state = "resolved"
    /\ cmds[2].tag \notin DOMAIN requests
    /\ cmds[1].tag \in DOMAIN requests
    /\ requests[cmds[1].tag] = 1

\* C4: tags are unique among outstanding requests - no two pending commands
\* carry the same tag, and every pending command is still the one registered
\* under its tag (its entry has not been overwritten by a later command).
C4_TagsUniqueAmongOutstanding ==
    /\ \A i, j \in Outstanding : i # j => cmds[i].tag # cmds[j].tag
    /\ \A i \in Outstanding :
          cmds[i].tag \in DOMAIN requests /\ requests[cmds[i].tag] = i

C6_ProtocolErrorIsFatal ==
    [][ \A pkt \in BadPackets \cup ReplyPackets \cup ErrorPackets :
          (_read(pkt, FALSE) /\ Throws(pkt)) =>
             /\ \A i \in Outstanding : cmds'[i].state = "rejected"
             /\ \A k \in Kinds : \A x \in DOMAIN streams[k] :
                   objs'[streams[k][x]].errors = objs[streams[k][x]].errors + 1
             /\ obs'.readErrors = obs.readErrors + 1 ]_vars

\* The transports that are gone: they reported an error, a close or both.
Gone == { n \in Conns : transport[n] \in {"errored", "closed", "failed"} }

\* C7: a transport that went away after disconnect() was called for it has
\* produced no connection-level error; a transport that went away unasked
\* has produced exactly one, also when it reported both an error and a
\* close; a transport that is still there has produced none.
C7_OneErrorPerUnsolicitedClose ==
    \A n \in Conns :
        obs.closeErrors[n] = IF n \in Gone /\ ~obs.userClose[n] THEN 1 ELSE 0

\* A transport reported an error and then a close, unasked: one notification.
C7_Witness ==
    \E n \in Conns :
        transport[n] = "failed" /\ ~obs.userClose[n] /\ obs.closeErrors[n] = 1

\* C8: the step that dispatches an ERROR packet for tag t rejects the request
\* registered under t and nothing else: every other entry of the table and
\* every other command stay as they were, the stream registries and the
\* streams are unchanged (no stream gets an error) and nothing is emitted on
\* the client (no connection-level error).
C8_ErrorTouchesOnlyItsRequest ==
    [][ \A pkt \in ErrorPackets :
          (_read(pkt, FALSE) /\ ~Throws(pkt)) =>
             LET id == requests[pkt.tag]
             IN  /\ cmds'[id].state = "rejected"
                 /\ \A t \in DOMAIN requests \ {pkt.tag} :
                       t \in DOMAIN requests' /\ requests'[t] = requests[t]
                 /\ \A j \in DOMAIN cmds : j # id => cmds'[j] = cmds[j]
                 /\ streams' = streams
                 /\ objs' = objs
                 /\ obs' = obs ]_vars

\* A request was rejected with a server error code while another request
\* stayed pending in the table, and no stream and no listener of the client
\* has seen an error.
C8_Witness ==
    /\ \E i \in DOMAIN cmds : cmds[i].state = "rejected" /\ cmds[i].error = PulseError(PA_ERR_NOENTITY)
    /\ \E i \in Outstanding : i \in InTable
    /\ \A i \in DOMAIN objs : objs[i].errors = 0
    /\ \A n \in Conns : obs.closeErrors[n] = 0
    /\ obs.readErrors = 0

----------------------------------------------------------------------------
(* Properties of the stream engines *)

\* The streams a producer writes to.
Writables == { i \in DOMAIN objs : objs[i].kind \in {"playback", "upload"} }

\* The number of bytes of the memory blocks a stream has written so far.
Shipped(s) ==
    Len(Flatten([i \in DOMAIN s.blocks |-> Flatten(s.blocks[i].body)]))

\* C1: for every playback and upload stream the bytes shipped in memory
\* blocks never exceed the credit granted so far (the requestedBytes of the
\* create reply plus those of every REQUEST received), and every memory block
\* shipped has a length that is a positive multiple of the frame size.
C1_ShippedWithinCredit ==
    \A i \in Writables :
        /\ Shipped(objs[i]) <= objs[i].granted
        /\ \A b \in DOMAIN objs[i].blocks :
              LET len == Len(Flatten(objs[i].blocks[b].body))
              IN  len > 0 /\ len % objs[i].step = 0

\* A stream with frames of two bytes has shipped two blocks, the second after
\* a REQUEST, and holds back a byte that does not make a frame.
C1_Witness ==
    \E i \in Writables :
        /\ objs[i].step = 2
        /\ Len(objs[i].blocks) = 2
        /\ Shipped(objs[i]) = 4
        /\ objs[i].granted = 5
        /\ _enqueued(objs[i].queue) = 1

\* C2: a write accepted while the credit of its stream is 0 has its
\* continuation invoked only after a REQUEST has raised the credit above 0
\* (no continuation was ever invoked early).
C2_WriteWaitsForCredit == \A i \in Writables : ~objs[i].early

\* The streams a consumer reads from.
Readables == { i \in DOMAIN objs : objs[i].kind = "record" }

\* C9: for a record stream created with a finite maximumLength M the bytes
\* pushed to the consumer never exceed M, nothing is pushed after the end,
\* the end is signalled at most once, and it has been signalled once M bytes
\* have been delivered.
C9_RecordStopsAtMaximumLength ==
    \A i \in Readables :
        objs[i].maximumLength # PA_NO_VALUE =>
            /\ objs[i].pushed <= objs[i].maximumLength
            /\ objs[i].afterEnd = 0
            /\ objs[i].ends <= 1
            /\ (objs[i].pushed = objs[i].maximumLength /\ objs[i].handled > 0)
                  => objs[i].ends = 1

\* A record stream has delivered its maximumLength in several blocks, the
\* last of them cut short, went through an overrun and was destroyed after
\* its end: the end was signalled once.
C9_Witness ==
    \E i \in Readables :
        /\ objs[i].maximumLength = MaxLength
        /\ objs[i].pushed = MaxLength
        /\ objs[i].handled >= 2
        /\ objs[i].overruns >= 1
        /\ objs[i].closed
        /\ objs[i].ends = 1

RECURSIVE Sum(_, _)
\* The sum of f over the set S.
Sum(f, S) ==
    IF S = {} THEN 0
    ELSE LET x == CHOOSE y \in S : TRUE IN f[x] + Sum(f, S \ {x})

\* The number of registered listeners whose name is 'event' or starts with 'event.'.
Listening(h) == Sum(h, { name \in EventNames : eventNameTest(name) })

\* The step issues a SUBSCRIBE with the mask.
Issues(mask) ==
    /\ Len(cmds') = Len(cmds) + 1
    /\ cmds'[Len(cmds')].type = "SUBSCRIBE"
    /\ cmds'[Len(cmds')].arg = mask

\* C10: a SUBSCRIBE with the ALL mask is issued exactly in the steps that take
\* the number of 'event' listeners from 0 to 1 and one with the NULL mask
\* exactly in the steps that take it from 1 to 0; and at all times the last
\* mask written to a transport is ALL if and only if there is such a listener.
C10_SubscriptionFollowsListeners ==
    /\ [][ /\ (Issues(PA_SUBSCRIPTION_MASK_ALL)
                 <=> (Listening(handlers) = 0 /\ Listening(handlers') = 1))
           /\ (Issues(PA_SUBSCRIPTION_MASK_NULL)
                 <=> (Listening(handlers) = 1 /\ Listening(handlers') = 0)) ]_vars
    /\ [](obs.lastMask = PA_SUBSCRIPTION_MASK_ALL <=> Listening(handlers) > 0)

----------------------------------------------------------------------------
(* Properties of the life cycle of the streams *)

\* C11: a playback or upload stream signals its end downstream ('finish',
\* after _final has called done without an error) only when its drain command -
\* DRAIN_PLAYBACK_STREAM for a playback stream, FINISH_UPLOAD_STREAM for an
\* upload stream, sent for its index - has been answered with a reply; when
\* the drain command was rejected, done was called with that error and the
\* end is not signalled.
C11_FinishAfterDrainReply ==
    \A i \in Writables :
        LET s == objs[i]
        IN  /\ s.finished => s.finalDone /\ s.finalError = NoError
            /\ s.finalDone =>
                  /\ cmds[s.finalCmd].type = FinalCommand(s.kind)
                  /\ cmds[s.finalCmd].arg = s.index
                  /\ cmds[s.finalCmd].state # "pending"
                  /\ (s.finalError = NoError) = (cmds[s.finalCmd].state = "resolved")
                  /\ cmds[s.finalCmd].state = "rejected" =>
                        s.finalError = cmds[s.finalCmd].error /\ ~s.finished

\* An upload stream has signalled its end after the reply to its
\* FINISH_UPLOAD_STREAM.
C11_Witness ==
    \E i \in Writables :
        /\ objs[i].kind = "upload"
        /\ objs[i].finished
        /\ cmds[objs[i].finalCmd].type = "FINISH_UPLOAD_STREAM"
        /\ cmds[objs[i].finalCmd].state = "resolved"

\* C12: a destroyed stream has sent the delete command of its kind for its
\* index; the callback of _destroy is called at most once, and once the delete
\* command has settled and _destroy has finished it was called exactly once:
\* with the error destroy() was called with (none, if none) when the command
\* was answered with a reply or with ERROR NOENTITY or ERROR EXIST, and with
\* the command's error after any other failure.
C12_DestroyCompletesOnce ==
    \A i \in DOMAIN objs :
        LET s == objs[i]
            c == cmds[s.deleteCmd]
        IN  /\ s.callbacks <= 1
            /\ s.closed <=> s.callbacks = 1
            /\ s.closed => s.destroyed
            /\ s.destroyed =>
                  /\ c.type = DeleteCommand(s.kind)
                  /\ c.arg = s.index
                  /\ s.closed => c.state # "pending"
                  /\ (s.closed /\ c.state = "resolved") => s.destroyError = s.destroyArg
                  /\ (s.closed /\ c.state = "rejected") =>
                        s.destroyError =
                            IF \/ c.error = PulseError(PA_ERR_NOENTITY)
                               \/ c.error = PulseError(PA_ERR_EXIST)
                            THEN s.destroyArg ELSE c.error

\* destroy(err) has completed with err after the delete command was answered
\* with ERROR EXIST; another destroy has completed with the error of its
\* delete command.
C12_Witness ==
    /\ \E i \in DOMAIN objs :
          /\ objs[i].closed
          /\ cmds[objs[i].deleteCmd].error = PulseError(PA_ERR_EXIST)
          /\ objs[i].destroyArg = UserError
          /\ objs[i].destroyError = UserError
    /\ \E i \in DOMAIN objs :
          /\ objs[i].closed
          /\ cmds[objs[i].deleteCmd].error = PulseError(PA_ERR_INVALID)
          /\ objs[i].destroyError = PulseError(PA_ERR_INVALID)

\* C13: once the client has handled the close of its transport (this.sock is
\* gone), every stream that was registered on the lost connection has been
\* destroyed: a stream that is still in a registry is one whose _destroy has
\* not yet finished.
C13_CloseDestroysStreams ==
    sock = 0 => \A i \in Registered : objs[i].destroyed

\* The kind of stream a killed event is for.
KilledKind(type) == IF type = "PLAYBACK_STREAM_KILLED" THEN "playback" ELSE "record"

\* C14: the step in which the dispatcher handles a killed event for a
\* registered playback or record stream that is not destroyed yet destroys that
\* stream with the 'Stream killed' error - the delete command of its kind is
\* sent for its index - and leaves every other stream and the registries as
\* they were; a stream whose _destroy has finished (the delete command was
\* answered, or failed with the connection) is in no registry.
C14_KilledStreamIsDestroyed ==
    /\ [][ \A pkt \in KilledPackets :
              LET reg == streams[KilledKind(pkt.type)]
              IN  ( /\ _read(pkt, FALSE)
                    /\ pkt.index \in DOMAIN reg
                    /\ ~objs[reg[pkt.index]].destroyed ) =>
                  LET sid == reg[pkt.index]
                      id  == Len(cmds) + 1
                  IN  /\ objs'[sid].destroyed
                      /\ objs'[sid].destroyArg = Killed
                      /\ objs'[sid].deleteCmd = id
                      /\ Len(cmds') = id
                      /\ cmds'[id].type = DeleteCommand(KilledKind(pkt.type))
                      /\ cmds'[id].arg = pkt.index
                      /\ \A j \in DOMAIN objs \ {sid} : objs'[j] = objs[j]
                      /\ streams' = streams ]_vars
    /\ [](\A i \in DOMAIN objs : objs[i].closed => i \notin Registered)

\* The stream at index 1 was killed on the server, its delete command has
\* been answered and it has left its registry; the stream at index 0 is
\* registered and untouched.
C14_Witness ==
    /\ objs[2].closed
    /\ objs[2].destroyArg = Killed
    /\ objs[2].destroyError = Killed
    /\ cmds[objs[2].deleteCmd].state = "resolved"
    /\ 2 \notin Registered
    /\ 1 \in Registered
    /\ ~objs[1].destroyed

----------------------------------------------------------------------------
(* Properties of maximumLength *)

\* C15: for a playback or upload stream created with a finite maximumLength M
\* a write that would bring the queued bytes above what is left is answered
\* with the maximum-length error and queues nothing; in every state the
\* queued bytes are at most what is left, what is left is not negative, and
\* the bytes shipped are at most M.
C15_WritesWithinMaximumLength ==
    /\ [][ \A i \in Writables, n \in 1 .. MaxChunk :
              ( /\ write(i, n)
                /\ objs[i].maximumLength # PA_NO_VALUE
                /\ _enqueued(objs[i].queue) + n > objs[i].left ) =>
              /\ objs'[i].refused = objs[i].refused + 1
              /\ objs'[i].queue = objs[i].queue
              /\ objs'[i].calls = objs[i].calls
              /\ objs'[i].blocks = objs[i].blocks ]_vars
    /\ [](\A i \in Writables :
             objs[i].maximumLength # PA_NO_VALUE =>
                /\ _enqueued(objs[i].queue) <= objs[i].left
                /\ objs[i].left >= 0
                /\ Shipped(objs[i]) <= objs[i].maximumLength)

\* A stream with a finite maximumLength has shipped all of it and has then
\* refused a write.
C15_Witness ==
    \E i \in Writables :
        /\ objs[i].maximumLength = MaxLength
        /\ Shipped(objs[i]) = MaxLength
        /\ objs[i].left = 0
        /\ objs[i].refused = 1

\* C16: for a playback stream created without maximumLength (the option is
\* then PA_NO_VALUE) what is left stays unlimited: it is not a number of bytes
\* that shipping brings down, and no write is answered with the
\* maximum-length error.
C16_NoMaximumLengthIsUnlimited ==
    \A i \in Writables :
        (objs[i].kind = "playback" /\ objs[i].maximumLength = PA_NO_VALUE) =>
            /\ objs[i].left \in {Null, PA_NO_VALUE}
            /\ objs[i].refused = 0

----------------------------------------------------------------------------
(* Properties of the events *)

\* C17: the step in which the dispatcher handles a well-formed event for a
\* registered stream - RECORD_STREAM_EVENT, RECORD_STREAM_SUSPENDED,
\* RECORD_STREAM_MOVED, RECORD_STREAM_KILLED or RECORD_BUFFER_ATTR_CHANGED for
\* a record stream, the playback counterparts and STARTED, UNDERFLOW, OVERFLOW
\* for a playback stream - emits on that stream the typed event (event,
\* suspended, moved, killed, buffer; started, underflow, overflow) and raises
\* no error.
C17_StreamEventsDelivered ==
    [][ \A pkt \in StreamEventPackets :
          LET reg   == IF pkt.type \in RecordEvents THEN streams["record"]
                       ELSE streams["playback"]
              typed == CASE pkt.type \in {"RECORD_STREAM_EVENT", "PLAYBACK_STREAM_EVENT"}
                              -> "event"
                         [] pkt.type \in {"RECORD_STREAM_SUSPENDED", "PLAYBACK_STREAM_SUSPENDED"}
                              -> "suspended"
                         [] pkt.type \in {"RECORD_STREAM_MOVED", "PLAYBACK_STREAM_MOVED"}
                              -> "moved"
                         [] pkt.type \in {"RECORD_STREAM_KILLED", "PLAYBACK_STREAM_KILLED"}
                              -> "killed"
                         [] pkt.type \in {"RECORD_BUFFER_ATTR_CHANGED",
                                          "PLAYBACK_BUFFER_ATTR_CHANGED"}
                              -> "buffer"
                         [] pkt.type = "STARTED"   -> "started"
                         [] pkt.type = "UNDERFLOW" -> "underflow"
                         [] pkt.type = "OVERFLOW"  -> "overflow"
                         [] OTHER -> "request"
          IN  ( /\ _read(pkt, FALSE)
                /\ pkt.type # "REQUEST"
                /\ pkt.index \in DOMAIN reg ) =>
              /\ objs'[reg[pkt.index]].lastEvent = typed
              /\ obs'.readErrors = obs.readErrors ]_vars

\* C18: the step in which the dispatcher handles a SUBSCRIBE_EVENT with event
\* code c and index i: with facility c & 0x0f among 0..9 (sink, source,
\* sink_input, source_output, module, client, sample_cache, server, autoload,
\* card) and operation c & 0x30 among 0x00, 0x10, 0x20 (new, change, remove)
\* exactly four events are emitted, in the order 'event', 'event.<facility>',
\* 'event.<operation>', 'event.<facility>.<operation>', the first three with
\* { index, event, facility, operation } and the last with (index, c); with
\* any other facility or operation an error is raised and nothing is emitted.
C18_SubscribeEventNotifications ==
    [][ \A c \in 0 .. MaxEventCode, i \in EventIndices :
          LET f   == c % 16
              o   == (c \div 16) % 4
              fac == <<"sink", "source", "sink_input", "source_output", "module",
                       "client", "sample_cache", "server", "autoload", "card">>
              ops == <<"new", "change", "remove">>
              arg(name) == [name |-> name, shape |-> "object", index |-> i, event |-> c,
                            facility |-> fac[f + 1], operation |-> ops[o + 1]]
          IN  _read(Packet("ok", PA_NO_INDEX, TRUE, "SUBSCRIBE_EVENT", PA_NO_TAG,
                           TRUE, i, c, 1), FALSE) =>
              IF f <= 9 /\ o <= 2
              THEN /\ Len(obs'.emitted) = 4
                   /\ obs'.emitted[1] = arg("event")
                   /\ obs'.emitted[2] = arg("event." \o fac[f + 1])
                   /\ obs'.emitted[3] = arg("event." \o ops[o + 1])
                   /\ obs'.emitted[4] =
                         [name |-> "event." \o fac[f + 1] \o "." \o ops[o + 1],
                          shape |-> "positional", index |-> i, event |-> c,
                          facility |-> "", operation |-> ""]
                   /\ obs'.readErrors = obs.readErrors
              ELSE /\ obs'.emitted = obs.emitted
                   /\ obs'.readErrors = obs.readErrors + 1 ]_vars

\* The event 0x12 for index 5 has been emitted as 'event', 'event.sink_input',
\* 'event.change' and 'event.sink_input.change'(5, 0x12), and an event with
\* an unknown facility or operation has raised an error.
C18_Witness ==
    /\ Len(obs.emitted) = 4
    /\ obs.emitted[1].name = "event"
    /\ obs.emitted[2].name = "event.sink_input"
    /\ obs.emitted[3].name = "event.change"
    /\ obs.emitted[3].facility = "sink_input"
    /\ obs.emitted[3].operation = "change"
    /\ obs.emitted[4] = Notification("event.sink_input.change", "positional", 5, 18, "", "")
    /\ obs.readErrors = 1

----------------------------------------------------------------------------
(* Properties of connect() *)

\* C19: once connect() has read the reply to AUTH, this.protocol is the low
\* 16 bits of the U32 of that reply; when that is below 32, connect() does not
\* get past the version check - it has failed once the reply to
\* GET_SERVER_INFO has been handled - and no SET_CLIENT_NAME command has been
\* sent.
C19_OldProtocolFailsConnect ==
    \A i \in DOMAIN cmds :
        ( /\ cmds[i].type = "AUTH"
          /\ cmds[i].state = "resolved"
          /\ connectAt.at \notin {"idle", "socket", "auth"} ) =>
        /\ protocol = cmds[i].value % 65536
        /\ protocol < 32 =>
              /\ connectAt.at \in {"info", "failed"}
              /\ \A j \in DOMAIN cmds : cmds[j].type # "SET_CLIENT_NAME"
              /\ \A j \in DOMAIN cmds :
                    (cmds[j].type = "GET_SERVER_INFO" /\ connectAt.at # "info")
                        => connectAt.at = "failed"

\* The server answered AUTH with 0x0100001F (version 31) and then
\* GET_SERVER_INFO with a reply: connect() has failed with the transport
\* still attached, and no third command was sent.
C19_Witness ==
    /\ connectAt.at = "failed"
    /\ protocol = 31
    /\ sock # 0
    /\ Len(cmds) = 2
    /\ cmds[1].type = "AUTH"
    /\ cmds[1].value = 16777247
    /\ cmds[2].type = "GET_SERVER_INFO"
    /\ cmds[2].state = "resolved"

----------------------------------------------------------------------------
(* Properties of the arguments of commands *)

\* C20: a call whose arguments are out of range - an index outside
\* 0..0xFFFFFFFE that is not the no-index sentinel, fewer than 1 or more than
\* 32 volumes, an empty sample name, a cookie of a length other than 256, a
\* sample spec with channels outside 0..31 - sends no command (nothing is
\* written to the transport) and adds no entry to the request table.
C20_BadArgumentsSendNothing ==
    [][ ( \/ \E index \in CallIndices, volumes \in CallVolumes :
               /\ setSourceOutputVolume(index, volumes)
               /\ \/ volumes \notin 1 .. 32
                  \/ index \notin 0 .. (PA_NO_INDEX - 1) /\ index # PA_NO_INDEX
          \/ playSample(0)
          \/ \E cookie \in CallCookies : _authenticate(cookie) /\ cookie # 256
          \/ \E channels \in CallChannels :
               createPlaybackStream(channels) /\ channels \notin 0 .. 31 ) =>
        ( /\ cmds' = cmds
          /\ requests' = requests
          /\ obs'.lastMask = obs.lastMask
          /\ obs'.lastThrow # "none" ) ]_vars

\* With a command outstanding, setSourceOutputVolume was called with an index
\* out of range or a bad number of volumes: the table and the commands sent
\* are those of before.
C20_Witness ==
    /\ obs.lastThrow = "SET_SOURCE_OUTPUT_VOLUME"
    /\ sock # 0
    /\ Len(cmds) = 1
    /\ cmds[1].type = "PLAY_SAMPLE"
    /\ cmds[1].state = "pending"
    /\ DOMAIN requests = {cmds[1].tag}

----------------------------------------------------------------------------
(* Properties of property trees *)

\* A tree as a value: the order of the entries of its objects left out.
RECURSIVE Unordered(_)
Unordered(tree) ==
    { [e EXCEPT !.sub = Unordered(@)] : e \in { tree[i] : i \in DOMAIN tree } }

\* The (dotted path, value) pairs of a tree, the value of an '@' key being
\* that of the name after the '@'.
RECURSIVE Pairs(_, _)
Pairs(tree, prefix) ==
    UNION { IF tree[i].leaf
            THEN { << prefix \o [tree[i].key EXCEPT ![1].at = 0], tree[i].val >> }
            ELSE Pairs(tree[i].sub, prefix \o tree[i].key) : i \in DOMAIN tree }

\* Every key of the tree is one name, every object has entries; the keys with
\* an '@' are strings whose name (the key without its '@') is also held by an
\* object at the same parent, and no key without '@' is.
RECURSIVE Coexisting(_)
Coexisting(tree) ==
    \A i \in DOMAIN tree :
        /\ Len(tree[i].key) = 1
        /\ tree[i].key[1].at > 0 =>
             /\ tree[i].leaf
             /\ \E j \in DOMAIN tree : /\ ~tree[j].leaf
                                       /\ tree[j].key = [tree[i].key EXCEPT ![1].at = 0]
        /\ ~tree[i].leaf => tree[i].sub # <<>> /\ Coexisting(tree[i].sub)

\* Coexisting, and no key starts with '@': no name is held by a string and an
\* object at the same parent.
RECURSIVE Plain(_)
Plain(tree) ==
    /\ Coexisting(tree)
    /\ \A i \in DOMAIN tree : tree[i].key[1].at = 0 /\ Plain(tree[i].sub)

\* C21: deflate followed by inflate preserves a property tree: the result
\* equals the tree when every leaf is a string and no name is held by a leaf
\* and an interior node at the same parent; when names hold both a value (under
\* '@name') and a subtree, every (dotted path, value) pair of the tree is a
\* pair of the result, in whatever order the keys of the tree are.
C21_RoundTripPreservesTree ==
    (props # <<>> /\ props.at = "res") =>
        /\ Plain(props.tree) => Unordered(props.res) = Unordered(props.tree)
        /\ Coexisting(props.tree) =>
             Pairs(props.tree, <<>>) \subseteq Pairs(props.res, <<>>)

----------------------------------------------------------------------------
(* Properties of tagged values *)

\* Two values of a type are equal; property trees are compared as values.
SameValue(type, a, b) ==
    CASE type = "PROPLIST" -> Unordered(a) = Unordered(b)
      [] type = "FORMAT_INFO" ->
            a.encoding = b.encoding /\ Unordered(a.properties) = Unordered(b.properties)
      [] OTHER -> a = b

\* C22: for every type with a writer and a reader (U8, U32, U64 over the
\* whole range 0 .. 2^64 - 1, string and null, bytes, boolean, sample spec,
\* channel map, cvolume, volume, property list, format info), a value written
\* to a new TagStruct is written without error, and the matching reader on
\* the finalized body returns an equal value and leaves the cursor at the end
\* of the bytes written for it.
C22_WrittenValueReadsBack ==
    tagstruct # <<>> =>
        /\ tagstruct.at # "threw"
        /\ \A k \in 1 .. Len(tagstruct.got) :
             SameValue(tagstruct.parts[k].type, tagstruct.got[k], tagstruct.parts[k].v)
        /\ tagstruct.at = "reading" =>
             tagstruct.i = Len(Flatten([k \in 1 .. Len(tagstruct.got) |->
                              add(tagstruct.parts[k].type, tagstruct.parts[k].v).bytes]))

----------------------------------------------------------------------------
(* Properties of the ship step *)

\* What one run of the ship step has done to a stream (s before the handler,
\* t after it) that held the chunks of queue and the credit when the step
\* began: with n the whole frames within the queued bytes and the credit,
\* one block on the stream's channel holding the first n bytes of the queue
\* (none for n = 0), n taken off the credit and off a finite remaining, and
\* the rest of the bytes left in the queue.
ShipStep(s, t, queue, credit) ==
    LET bytes == Flatten(queue)
        n == (Min(Len(bytes), credit) \div s.step) * s.step
    IN  /\ IF n = 0 THEN t.blocks = s.blocks
           ELSE /\ Len(t.blocks) = Len(s.blocks) + 1
                /\ SubSeq(t.blocks, 1, Len(s.blocks)) = s.blocks
                /\ t.blocks[Len(t.blocks)].channel = s.index
                /\ Flatten(t.blocks[Len(t.blocks)].body) = SubSeq(bytes, 1, n)
        /\ t.requestedBytes = credit - n
        /\ s.maximumLength # PA_NO_VALUE => t.left = s.left - n
        /\ Flatten(t.queue) = SubSeq(bytes, n + 1, Len(bytes))

\* Post(i, queue, credit) holds of every step in which a handler ran the ship
\* step on a stream i, with the chunks of queue and the credit at its
\* beginning: write(i, n) accepted the chunk and queued it, or a REQUEST for
\* the stream added to its credit.
EveryShipStep(Post(_, _, _)) ==
    \A i \in Writables :
        /\ \A n \in 1 .. MaxChunk :
             ( /\ write(i, n)
               /\ ~(objs[i].left # Null /\ _enqueued(objs[i].queue) + n > objs[i].left) ) =>
             Post(i, Append(objs[i].queue, Chunk(objs[i].written, n)),
                  objs[i].requestedBytes)
        /\ \A n \in 0 .. MaxRequest :
             ( /\ objs[i].index \in DOMAIN streams["playback"]
               /\ streams["playback"][objs[i].index] = i
               /\ _read(Packet("ok", PA_NO_INDEX, TRUE, "REQUEST", PA_NO_TAG, TRUE,
                               objs[i].index, n, 1), FALSE) ) =>
             Post(i, objs[i].queue, objs[i].requestedBytes + n)

C24_ContinuationInvokedIff ==
    [][ EveryShipStep(LAMBDA i, queue, credit :
          (objs[i].callback \/ objs'[i].written > objs[i].written) =>
              LET shipped == Len(objs'[i].blocks) > Len(objs[i].blocks)
                  due == \/ objs'[i].requestedBytes > 0
                         \/ ~shipped /\ _enqueued(queue) < objs[i].step
                         \/ objs'[i].left = 0
              IN  IF due
                  THEN objs'[i].calls = objs[i].calls + 1 /\ ~objs'[i].callback
                  ELSE objs'[i].calls = objs[i].calls /\ objs'[i].callback) ]_vars


\* C25: a playback stream stores at most one producer continuation: the
\* continuation is stored exactly while one write owns it, and a write that
\* arrives while a continuation is stored fails with an error (it throws, or
\* its own continuation is called with an error) and leaves the stored
\* continuation in place, not called and still owned by the earlier write.
C25_StoredContinuationKept ==
    [][ \A i \in Writables :
            /\ objs'[i].callback <=> objs'[i].owner # 0
            /\ \A n \in 1 .. MaxChunk :
                 writeAgain(i, n) =>
                     /\ objs'[i].callback
                     /\ objs'[i].owner = objs[i].owner
                     /\ objs'[i].calls = objs[i].calls
                     /\ \/ objs'[i].thrown
                        \/ objs'[i].refused = objs[i].refused + 1 ]_vars

\* A second write threw while the continuation of the first one, whose chunk
\* is now shipped, was stored; the continuation is still stored.
C25_Witness ==
    \E i \in Writables :
        /\ objs[i].thrown
        /\ objs[i].callback
        /\ objs[i].owner = 1
        /\ objs[i].calls = 0
        /\ Len(objs[i].queue) >= 1


\* The number of bytes of the stream up to the end of its k-th packet
RECURSIVE PacketEnd(_)
PacketEnd(k) ==
    IF k = 0 THEN 0
    ELSE PacketEnd(k - 1) + PA_STREAM_DESCRIPTOR_SIZE + Len(rx.packets[k].body)

\* The dispatcher throws for the k-th packet of the stream
Rejected(k) ==
    /\ SubSeq(rx.packets[k].header, 5, 8) = <<255, 255, 255, 255>>
    /\ Len(rx.packets[k].body) < 5 \/ rx.packets[k].body[1] # PA_TAG.U32

\* Every packet before the k-th has a body and was handled without an error
Framed(k) ==
    \A p \in 1 .. k - 1 : p \in DOMAIN rx.packets =>
        rx.packets[p].body # <<>> /\ ~Rejected(p)

C27_RequestStaysUntilAnswered ==
    [][ \A i \in DOMAIN cmds :
          /\ ( /\ cmds[i].state = "pending"
               /\ cmds[i].tag \in DOMAIN requests
               /\ cmds[i].tag \notin DOMAIN requests' ) =>
                   \/ \E pkt \in ReplyPackets \cup ErrorPackets :
                          pkt.tag = cmds[i].tag /\ _read(pkt, FALSE) /\ ~Throws(pkt)
                   \/ \E n \in Conns, ev \in {"close", "error"} :
                          SockEvent(n, ev) /\ ev \in sockListeners[n]
          /\ ( cmds[i].state = "pending" /\ cmds'[i].state # "pending" ) =>
                   cmds[i].tag \in DOMAIN requests /\ requests[cmds[i].tag] = i
          /\ cmds[i].state # "pending" =>
                   cmds'[i].state = cmds[i].state /\ cmds'[i].error = cmds[i].error ]_vars

\* Three commands were written: the second was answered by a REPLY first,
\* the first by an ERROR, and the third was rejected when the transport
\* closed; the table is empty.
C27_Witness ==
    /\ Len(cmds) = 3
    /\ cmds[1].state = "rejected" /\ cmds[1].error.name = "PulseError"
    /\ cmds[2].state = "resolved"
    /\ cmds[3].state = "rejected" /\ cmds[3].error = Disconnected
    /\ requests = Empty


\* The memory blocks and the well-formed stream events of the server, and
\* the registry _parse looks a packet's stream up in
BlockPackets ==
    { Packet("ok", channel, TRUE, "none", 0, TRUE, 0, len, 1) :
        channel \in Idx, len \in 1 .. MaxBlock }
Registry(pkt) ==
    IF pkt.channel # PA_NO_INDEX \/ pkt.type \in RecordEvents
    THEN streams["record"] ELSE streams["playback"]
Addressee(pkt) == IF pkt.channel # PA_NO_INDEX THEN pkt.channel ELSE pkt.index

\* The step of _read for packet pkt left everything but the transport's
\* state as it was and raised no error; the handler is still attached.
Dropped(pkt) ==
    \A full \in BOOLEAN :
        ( _read(pkt, full) /\ Addressee(pkt) \notin DOMAIN Registry(pkt) ) =>
            /\ requests' = requests
            /\ cmds' = cmds
            /\ streams' = streams
            /\ objs' = objs
            /\ obs' = obs
            /\ "readable" \in sockListeners'[sock']

C29_RecordStopsOnOverrun ==
    [][ \A i \in Readables :
          /\ \A channel \in Idx, len \in 1 .. MaxBlock, full \in BOOLEAN :
               ( /\ channel \in DOMAIN streams["record"]
                 /\ streams["record"][channel] = i
                 /\ _read(Packet("ok", channel, TRUE, "none", 0, TRUE, 0, len, 1), full) ) =>
                   /\ ~objs[i].running => objs'[i] = objs[i]
                   /\ (objs[i].running /\ full) =>
                        /\ ~objs'[i].running
                        /\ objs'[i].overruns = objs[i].overruns + 1
                   /\ (objs[i].running /\ ~full) =>
                        objs'[i].overruns = objs[i].overruns
          /\ (~objs[i].running /\ objs'[i].running) => read(i) ]_vars

\* A block filled the consumer's buffer: the stream has stopped with one
\* overrun, it has not ended and it is still registered, so the blocks the
\* server goes on sending are handled while it is not running.
C29_Witness ==
    \E i \in Readables :
        /\ objs[i].overruns = 1
        /\ ~objs[i].running
        /\ objs[i].pushed > 0
        /\ ~objs[i].ended
        /\ ~objs[i].destroyed
        /\ sock # 0
        /\ ENABLED Blocks

\* The consumer asked again after an overrun: the stream runs again.
C29_WitnessResumed ==
    \E i \in Readables :
        objs[i].overruns = 1 /\ objs[i].running /\ objs[i].handled = 1


\* C30: getUsec() with the cursor at a USEC value of the body, wherever in
\* the body that is, returns the number held in the 8 bytes that follow the
\* tag byte at the cursor - the number the server wrote - and moves the
\* cursor on by 9.
C30_UsecReadAtCursor ==
    [][ ( /\ Gets
          /\ tagstruct.parts[Len(tagstruct.got) + 1].type = "USEC" ) =>
        /\ tagstruct'.at = "reading"
        /\ tagstruct'.i = tagstruct.i + 9
        /\ tagstruct'.got[Len(tagstruct'.got)] =
               ReadBE(SubSeq(tagstruct.body, tagstruct.i + 2, tagstruct.i + 9))
        /\ tagstruct'.got[Len(tagstruct'.got)] = tagstruct.parts[Len(tagstruct'.got)].v ]_vars


----------------------------------------------------------------------------
(* Further properties of the playback engine *)

\* C31: after every write and every REQUEST handling on a playback stream
\* that ran to its end (the ship step did not throw at a missing transport)
\* no shippable frame is left behind: the queued bytes and the credit are
\* not both at least one frame.
C31_NoShippableFrameLeft ==
    [][ EveryShipStep(LAMBDA i, queue, credit :
            ( \/ sock # 0
              \/ Min(_enqueued(queue), credit) < objs[i].step ) =>
            ~ ( /\ _enqueued(objs'[i].queue) >= objs[i].step
                /\ objs'[i].requestedBytes >= objs[i].step )) ]_vars

\* Frames of 2 bytes: a block has been shipped, one byte stays queued and the
\* credit left is more than a frame.
C31_Witness ==
    \E i \in Writables :
        /\ objs[i].step = 2
        /\ objs[i].blocks # <<>>
        /\ _enqueued(objs[i].queue) = 1
        /\ objs[i].requestedBytes >= 2


\* C32: in the step in which end() writes the drain command of a playback or
\* upload stream, the stream's queue holds less than one frame: every whole
\* frame accepted through write has been shipped in a memory block.
C32_DrainAfterAllFramesShipped ==
    [][ \A i \in Writables :
          (end(i) /\ sock # 0) => _enqueued(objs[i].queue) < objs[i].step ]_vars


\* C33: once the delete command of a playback or upload stream has been
\* written (destroy() has run, whether or not the reply has arrived), no
\* step writes another memory block for the stream.
C33_NoBlockAfterDelete ==
    [][ \A i \in Writables :
          objs[i].deleteCmd # 0 => objs'[i].blocks = objs[i].blocks ]_vars


\* C34: the continuation stored by an accepted write is invoked at most once
\* (a step invokes at most one continuation, and once it is invoked none is
\* stored any more), and while the server keeps sending REQUEST events on an
\* attached transport the stored continuation of a playback stream (the
\* streams REQUEST events are dispatched to) is eventually invoked.
C34_ContinuationOnceAndEventually ==
    /\ [][ \A i \in Writables :
             /\ objs'[i].calls \in {objs[i].calls, objs[i].calls + 1}
             /\ objs'[i].calls # objs[i].calls =>
                    ~objs'[i].callback /\ objs'[i].owner = 0
             /\ (objs[i].owner # 0 /\ objs'[i].owner # objs[i].owner) =>
                    objs'[i].calls = objs[i].calls + 1 ]_vars
    /\ \A c \in 0 .. MaxWritten :
           (objs[1].kind = "playback" /\ objs[1].callback /\ objs[1].calls = c)
               ~> (objs[1].calls > c \/ sock = 0)

\* An earlier continuation has been invoked, the next one is stored on the
\* attached transport, and a REQUEST event is about to invoke it.
C34_Witness ==
    /\ sock # 0
    /\ objs[1].kind = "playback"
    /\ objs[1].calls >= 1
    /\ objs[1].callback
    /\ objs[1].owner # 0
    /\ ENABLED (Request /\ objs'[1].calls = objs[1].calls + 1)


----------------------------------------------------------------------------
(* Further properties of the framer and of the connection *)

\* C35: the framer makes progress - a packet whose descriptor and body bytes
\* (as many as its length field says, 0 included) have all arrived at the
\* transport is eventually handed to the dispatcher together with its own
\* descriptor, also when an earlier packet made the dispatcher throw.
C35_CompletePacketHandedOff ==
    \A k \in 1 .. MaxPackets :
        ( IF rx # <<>> /\ k \in DOMAIN rx.packets
          THEN rx.arrived >= PacketEnd(k)
          ELSE FALSE )
            ~> ( IF rx # <<>> /\ k \in DOMAIN rx.packets
                 THEN \E j \in DOMAIN rx.parsed : rx.parsed[j] = rx.packets[k]
                 ELSE FALSE )


\* C36: whenever connect() has completed, its transport is attached and a
\* listener whose name matches the event pattern is registered, the last
\* SUBSCRIBE written went to the current transport and had the ALL mask -
\* also when the listener was registered before connect().
C36_SubscribedWhileListening ==
    ( /\ connectAt.at = "done"
      /\ sock # 0
      /\ Listening(handlers) > 0 ) =>
        ( /\ obs.maskSock = sock
          /\ obs.lastMask = PA_SUBSCRIPTION_MASK_ALL )


\* C37: a call of disconnect() made while a transport is attached completes
\* only in a step that has handled the close of the transport - the requests
\* of the table are rejected and the transport is detached - whether it is the
\* call that stored the pending entry or a call made while that one is pending.
C37_DisconnectCompletesAfterClose ==
    [][ ( \/ disconnecting /\ ~disconnecting'
          \/ obs'.returned # obs.returned ) =>
            /\ sock' = 0
            /\ requests' = Empty
            /\ \A i \in InTable \cap Outstanding : cmds'[i].state = "rejected" ]_vars


\* C38: a write that a playback or upload stream rejects - because the
\* maximum length would be exceeded, or because a continuation is already
\* stored - leaves the stream's queue, credit, remaining bytes and stored
\* continuation as they were and ships nothing.
C38_RejectedWriteChangesNothing ==
    [][ \A i \in Writables :
          ( \/ objs'[i].refused # objs[i].refused
            \/ objs'[i].thrown /\ ~objs[i].thrown ) =>
              /\ objs'[i].queue = objs[i].queue
              /\ objs'[i].requestedBytes = objs[i].requestedBytes
              /\ objs'[i].left = objs[i].left
              /\ objs'[i].callback = objs[i].callback
              /\ objs'[i].owner = objs[i].owner
              /\ objs'[i].blocks = objs[i].blocks ]_vars


\* C39: a command invoked while no transport is attached fails and leaves the
\* request table without an entry for its tag; the request table only ever
\* holds commands that were written to a transport.
C39_NoEntryWithoutTransport ==
    /\ [][ (Len(cmds') = Len(cmds) + 1 /\ sock = 0) =>
              LET c == cmds'[Len(cmds')]
              IN  /\ c.state = "rejected"
                  /\ c.tag \notin DOMAIN requests' ]_vars
    /\ [](\A t \in DOMAIN requests : cmds[requests[t]].error # TypeError)

====
